---------------------------- MODULE Spec2Model ----------------------------
(***************************************************************************)
(* Merge-Tactics: the round orchestrator MTEnv (src/mergetactics/env.py)   *)
(* and the battle engine BattleEngine it drives.                           *)
(*                                                                         *)
(* Numbers.  The code computes with Python floats; the model keeps every   *)
(* quantity as an integer and follows what the floats do:                  *)
(*   - hp and damage are in thousandths of a hit point;                    *)
(*   - a cooldown is the number of step(dt) calls after which              *)
(*     max(0.0, cooldown - dt) is 0.0 (1.0 needs 11 subtractions of 0.1:   *)
(*     ten of them leave 1.4e-16);                                         *)
(*   - a projectile's remaining time is the number of `remaining -= dt`    *)
(*     after which it is <= 0;                                             *)
(*   - a position is the cell a move started from, the cell it goes to     *)
(*     and the number of advance_move calls made; round(pos) is read from  *)
(*     what the doubles of advance_move round to.                          *)
(***************************************************************************)
EXTENDS Integers, Sequences, FiniteSets, TLC

\* ------------------------------------------------------------------------
\* rules.py: board, rounds, economy
\* ------------------------------------------------------------------------
BOARD_ROWS == 8
BOARD_COLS == 5
MAX_ROUNDS == 20
START_ELIXIR == 4
CARD_COST_DEFAULT == 3
SELL_REFUND == 2
STORE_SLOTS == 3
BASE_HP == 10

Abs(x) == IF x < 0 THEN -x ELSE x
Max(a, b) == IF a >= b THEN a ELSE b
Min(a, b) == IF a <= b THEN a ELSE b

\* a unit cap that keeps growing by one per round
unit_cap_for_round_uncapped(round_num) == 2 + (round_num - 1)

\* rules.unit_cap_for_round
unit_cap_for_round(round_num) == Min(2 + (round_num - 1), 6)

Cells == (0 .. BOARD_ROWS - 1) \X (0 .. BOARD_COLS - 1)
NoCell == <<-1, -1>>

\* ------------------------------------------------------------------------
\* The catalog handed to MTEnv: a list of two dict specs shaped like the
\* fallback of rules._load_catalog (id 0 a melee "Tank", id 1 a ranged
\* "Archer"), with base hp low enough for a battle to be decided in a few
\* attacks.  The list has no .get, so _cost_of prices every card at
\* CARD_COST_DEFAULT, and no 'id' keys, so offers are drawn from TROOP_IDS.
\* ------------------------------------------------------------------------
TankHp == 4
ArcherHp == 2
TankDps == 18
ArcherDps == 24
TankRange == 1
ArcherRange == 3
TROOP_IDS == {0, 1}

\* rules.STAR_HP_MUL_DEFAULT / STAR_DPS_MUL_DEFAULT (x1000 and x100), star 1..3
StarHpMul(star) == CASE star = 2 -> 1600 [] star = 3 -> 2560 [] OTHER -> 1000
StarDpsMul(star) == CASE star = 2 -> 140 [] star = 3 -> 196 [] OTHER -> 100

\* rules.base_stats_for + Unit.from_card: hp = max(1.0, hp), in thousandths
UnitHp(card_id, star) ==
  Max(1000, (IF card_id = 0 THEN TankHp ELSE ArcherHp) * StarHpMul(star))

\* the damage of one attack with its sign turned, as a hit added to the
\* target's hp would count
UnitDamage_negative(card_id, star) ==
  0 - Max(10, (IF card_id = 0 THEN TankDps ELSE ArcherDps) * StarDpsMul(star))

\* damage of one attack, dps * dt with dps = max(0.1, dps), in thousandths
UnitDamage(card_id, star) ==
  Max(10, (IF card_id = 0 THEN TankDps ELSE ArcherDps) * StarDpsMul(star))

\* Unit.range
UnitRange(card_id) == IF card_id = 0 THEN TankRange ELSE ArcherRange

\* Unit.hit_speed() = 1.0, as the number of ticks until the cooldown is 0.0
HitSpeedTicks == 11
\* the blocked stall max(cooldown, 0.18): 0.18 - 0.1 - 0.1 <= 0
BlockedTicks == 2

\* Unit.projectile_speed() > 0 (rules.projectile_speed_for: range <= 1 is melee)
IsRanged(card_id) == UnitRange(card_id) > 1

\* travel = hex_dist / 4.0, as the number of `remaining -= dt` until <= 0:
\* 0.0 -> 1, 0.25 -> 3, 0.5 -> 6 (five subtractions leave 2.8e-17), 0.75 -> 8
TravelDecrements(d) ==
  CASE d = 0 -> 1 [] d = 1 -> 3 [] d = 2 -> 6 [] d = 3 -> 8 [] OTHER -> 8

\* advance_move calls that cover an L1 distance of 1: step = min(spd*dt, 0.45)
\* is 0.1 for move_speed 1.0 (Tank) and 0.05 for move_speed 0.5 (Archer)
AdvancesPerUnit(card_id) == IF card_id = 0 THEN 10 ELSE 20

\* ------------------------------------------------------------------------
\* Hex helpers of BattleEngine.step
\* ------------------------------------------------------------------------
\* rc_to_cube, doubled so that x = c - (r & 1)/2 stays an integer
rc_to_cube(r, c) ==
  LET x == 2 * c - (r % 2)
      z == 2 * r
  IN  <<x, -x - z, z>>

\* hex_dist: int((|dx| + |dy| + |dz|) / 2) on the undoubled coordinates
hex_dist(r1, c1, r2, c2) ==
  LET a == rc_to_cube(r1, c1)
      b == rc_to_cube(r2, c2)
  IN  (Abs(a[1] - b[1]) + Abs(a[2] - b[2]) + Abs(a[3] - b[3])) \div 4

\* hex_neighbors: odd-r offset neighbours, clamped to the board
hex_neighbors(r, c) ==
  LET cand == IF r % 2 = 1
              THEN {<<r-1, c>>, <<r-1, c+1>>, <<r, c-1>>, <<r, c+1>>, <<r+1, c>>, <<r+1, c+1>>}
              ELSE {<<r-1, c-1>>, <<r-1, c>>, <<r, c-1>>, <<r, c+1>>, <<r+1, c-1>>, <<r+1, c>>}
  IN  {n \in cand : n \in Cells}

\* a function given by its graph (evaluated once, not at every application)
Eager(f) == f @@ <<>>

\* lexicographic order on tuples of integers of equal length (Python tuple <)
RECURSIVE LexLess(_, _)
LexLess(a, b) ==
  IF Len(a) = 0 THEN FALSE
  ELSE IF a[1] # b[1] THEN a[1] < b[1]
  ELSE LexLess(Tail(a), Tail(b))

\* list.sort(key=...) of a set of items with pairwise distinct keys
RECURSIVE SortByKey(_, _)
SortByKey(S, key) ==
  IF S = {} THEN <<>>
  ELSE LET m == CHOOSE x \in S : \A y \in S : y = x \/ LexLess(key[x], key[y])
       IN  <<m>> \o SortByKey(S \ {m}, key)

\* ------------------------------------------------------------------------
\* Units of a battle roster (entities.Unit in a [owner, unit] pair)
\*   cell, move_target, prog stand for the float pos: the unit left the
\*   centre of `cell` towards `move_target` and advance_move has run `prog`
\*   times (prog = 0: pos is the centre of `cell`).  rc is the rounded pos,
\*   (round(pos[0]), round(pos[1])), kept up to date by advance_move.
\* ------------------------------------------------------------------------
\* _unit_make / Unit.from_card: full hp for the star, cooldown 0.0
unit_make(owner, card_id, star, pos) ==
  [owner |-> owner, card_id |-> card_id, star |-> star, hp |-> UnitHp(card_id, star),
   cooldown |-> 0, cell |-> pos, move_target |-> NoCell, prog |-> 0, rc |-> pos]

\* Unit.is_alive
is_alive(u) == u.hp > 0

\* advance_move calls from the centre of u.cell to the centre of u.move_target
MoveLength(u) ==
  (Abs(u.move_target[1] - u.cell[1]) + Abs(u.move_target[2] - u.cell[2]))
    * AdvancesPerUnit(u.card_id)

\* round() of the doubles advance_move produces.  Half way (prog = MoveLength/2)
\* the exact coordinate is x.5 and the rounding error of the double decides:
\* these are the moves <<r, c, tr, tc>> whose row (column) already rounds to the
\* target's half way; for every other move it does one call later.
\* Fast: step 0.1 (move_speed 1.0); Slow: step 0.05 (move_speed 0.5).
RowFlipsAtMidpointFast ==
  {<<0,1,1,0>>, <<0,2,1,1>>, <<1,0,0,1>>, <<1,0,2,0>>, <<1,0,2,1>>, <<1,1,0,2>>, <<1,1,2,1>>,
    <<1,1,2,2>>, <<1,2,2,2>>, <<1,2,2,3>>, <<1,3,2,3>>, <<1,3,2,4>>, <<1,4,2,4>>, <<2,0,1,0>>,
    <<2,0,3,0>>, <<2,1,1,0>>, <<2,1,1,1>>, <<2,1,3,1>>, <<2,2,1,1>>, <<2,2,1,2>>, <<2,2,3,2>>,
    <<2,3,1,2>>, <<2,3,1,3>>, <<2,3,3,3>>, <<2,4,1,3>>, <<2,4,1,4>>, <<2,4,3,4>>, <<3,0,2,0>>,
    <<3,0,4,0>>, <<3,1,2,1>>, <<3,1,4,1>>, <<3,2,2,2>>, <<3,2,4,2>>, <<3,3,2,3>>, <<3,3,4,3>>,
    <<3,4,2,4>>, <<3,4,4,4>>, <<4,0,3,0>>, <<4,1,3,1>>, <<4,2,3,2>>, <<4,3,3,3>>, <<4,4,3,4>>}
ColFlipsAtMidpointFast ==
  {<<0,1,0,2>>, <<0,1,1,0>>, <<0,2,0,1>>, <<0,2,0,3>>, <<0,2,1,1>>, <<0,3,0,2>>, <<0,3,0,4>>,
    <<0,4,0,3>>, <<1,0,0,1>>, <<1,0,2,1>>, <<1,1,0,2>>, <<1,1,1,2>>, <<1,1,2,2>>, <<1,2,1,1>>,
    <<1,2,1,3>>, <<1,3,1,2>>, <<1,3,1,4>>, <<1,4,1,3>>, <<2,1,1,0>>, <<2,1,2,2>>, <<2,2,1,1>>,
    <<2,2,2,1>>, <<2,2,2,3>>, <<2,2,3,1>>, <<2,3,2,2>>, <<2,3,2,4>>, <<2,4,2,3>>, <<3,1,2,2>>,
    <<3,1,3,2>>, <<3,1,4,2>>, <<3,2,3,1>>, <<3,2,3,3>>, <<3,3,3,2>>, <<3,3,3,4>>, <<3,4,3,3>>,
    <<4,1,4,2>>, <<4,2,3,1>>, <<4,2,4,1>>, <<4,2,4,3>>, <<4,3,4,2>>, <<4,3,4,4>>, <<4,4,4,3>>,
    <<5,1,4,2>>, <<5,1,5,2>>, <<5,1,6,2>>, <<5,2,5,1>>, <<5,2,5,3>>, <<5,3,5,2>>, <<5,3,5,4>>,
    <<5,4,5,3>>, <<6,1,6,2>>, <<6,2,6,1>>, <<6,2,6,3>>, <<6,3,6,2>>, <<6,3,6,4>>, <<6,4,6,3>>,
    <<7,1,6,2>>, <<7,1,7,2>>, <<7,2,7,1>>, <<7,2,7,3>>, <<7,3,7,2>>, <<7,3,7,4>>, <<7,4,7,3>>}
RowFlipsAtMidpointSlow ==
  {<<0,1,1,0>>, <<1,0,0,0>>, <<1,0,0,1>>, <<1,0,2,0>>, <<1,1,0,1>>, <<1,1,0,2>>, <<1,1,2,1>>,
    <<1,2,0,2>>, <<1,2,0,3>>, <<1,2,2,2>>, <<1,3,0,3>>, <<1,3,0,4>>, <<1,3,2,3>>, <<1,4,0,4>>,
    <<1,4,2,4>>, <<2,0,1,0>>, <<2,1,1,1>>, <<2,2,1,2>>, <<2,3,1,3>>, <<2,4,1,4>>, <<4,1,5,0>>,
    <<4,2,5,1>>, <<4,3,5,2>>, <<4,4,5,3>>, <<5,0,4,1>>, <<5,0,6,1>>, <<5,1,4,2>>, <<5,1,6,2>>,
    <<5,2,4,3>>, <<5,2,6,3>>, <<5,3,4,4>>, <<5,3,6,4>>, <<6,1,5,0>>, <<6,1,7,0>>, <<6,2,5,1>>,
    <<6,2,7,1>>, <<6,3,5,2>>, <<6,3,7,2>>, <<6,4,5,3>>, <<6,4,7,3>>, <<7,0,6,1>>, <<7,1,6,2>>,
    <<7,2,6,3>>, <<7,3,6,4>>}
ColFlipsAtMidpointSlow ==
  {<<0,1,0,0>>, <<0,1,0,2>>, <<0,1,1,0>>, <<0,2,0,1>>, <<1,0,0,1>>, <<1,1,1,0>>, <<1,1,1,2>>,
    <<1,2,1,1>>, <<2,1,1,0>>, <<2,1,2,0>>, <<2,1,2,2>>, <<2,1,3,0>>, <<2,2,2,1>>, <<3,1,3,0>>,
    <<3,1,3,2>>, <<3,2,3,1>>, <<4,1,3,0>>, <<4,1,4,0>>, <<4,1,4,2>>, <<4,1,5,0>>, <<4,2,4,1>>,
    <<4,2,5,1>>, <<5,0,4,1>>, <<5,0,6,1>>, <<5,1,4,2>>, <<5,1,5,0>>, <<5,1,5,2>>, <<5,1,6,2>>,
    <<5,2,5,1>>, <<6,1,5,0>>, <<6,1,6,0>>, <<6,1,6,2>>, <<6,1,7,0>>, <<6,2,5,1>>, <<6,2,6,1>>,
    <<6,2,7,1>>, <<7,0,6,1>>, <<7,1,6,2>>, <<7,1,7,0>>, <<7,1,7,2>>, <<7,2,7,1>>}

RowFlip(u) ==
  LET m == <<u.cell[1], u.cell[2], u.move_target[1], u.move_target[2]>>
      early == IF AdvancesPerUnit(u.card_id) = 10
               THEN m \in RowFlipsAtMidpointFast ELSE m \in RowFlipsAtMidpointSlow
  IN  MoveLength(u) \div 2 + (IF early THEN 0 ELSE 1)

ColFlip(u) ==
  LET m == <<u.cell[1], u.cell[2], u.move_target[1], u.move_target[2]>>
      early == IF AdvancesPerUnit(u.card_id) = 10
               THEN m \in ColFlipsAtMidpointFast ELSE m \in ColFlipsAtMidpointSlow
  IN  MoveLength(u) \div 2 + (IF early THEN 0 ELSE 1)

\* (round(pos[0]), round(pos[1])) of a unit under way, from cell, move_target
\* and prog
round_pos(u) ==
  IF u.move_target = NoCell \/ u.prog = 0 THEN u.cell
  ELSE <<IF u.prog >= RowFlip(u) THEN u.move_target[1] ELSE u.cell[1],
         IF u.prog >= ColFlip(u) THEN u.move_target[2] ELSE u.cell[2]>>

\* (round(u.pos[0]), round(u.pos[1]))
Rounded(u) == u.rc

\* is_center: both coordinates within CENTER_EPS of an integer
is_center(u) == u.prog = 0

\* advance_move: one call; on arrival pos snaps to the target, move_target = None
advance_move(u) ==
  IF u.prog + 1 >= MoveLength(u)
  THEN [u EXCEPT !.cell = u.move_target, !.move_target = NoCell, !.prog = 0,
                 !.rc = u.move_target]
  ELSE [u EXCEPT !.prog = u.prog + 1, !.rc = round_pos([u EXCEPT !.prog = u.prog + 1])]

\* BattleEngine.alive_counts
alive_counts(units) ==
  <<Cardinality({i \in DOMAIN units : units[i].owner = 0 /\ is_alive(units[i])}),
    Cardinality({i \in DOMAIN units : units[i].owner = 1 /\ is_alive(units[i])})>>

\* BattleEngine.nearest_enemy: roster index (1-based here) or 0 for None
nearest_enemy(units, idx) ==
  LET ui == units[idx]
      me == Rounded(ui)
      enemies == {j \in DOMAIN units : units[j].owner # ui.owner /\ is_alive(units[j])}
      key(j) == LET t == Rounded(units[j])
                IN  <<hex_dist(me[1], me[2], t[1], t[2]), t[2], t[1], j>>
  IN  IF enemies = {} THEN 0
      ELSE CHOOSE j \in enemies : \A k \in enemies : k = j \/ LexLess(key(j), key(k))

\* one pass over the in-flight projectiles (run at the start and at the end of
\* step): remaining -= dt; on arrival the damage lands if the target was alive
\* when the pass began (alive_mask)
RECURSIVE ProjectileFold(_, _, _, _)
ProjectileFold(ps, mask, units, kept) ==
  IF ps = <<>> THEN [units |-> units, projectiles |-> kept]
  ELSE LET p == Head(ps)
       IN  IF p.remaining - 1 <= 0
           THEN ProjectileFold(Tail(ps), mask,
                  IF p.target_idx \in DOMAIN units /\ mask[p.target_idx]
                  THEN [units EXCEPT ![p.target_idx].hp = @ - p.dmg] ELSE units,
                  kept)
           ELSE ProjectileFold(Tail(ps), mask, units,
                  Append(kept, [p EXCEPT !.remaining = @ - 1]))

ProjectilePass(e) ==
  LET mask == [i \in DOMAIN e.units |-> is_alive(e.units[i])]
  IN  ProjectileFold(e.projectiles, mask, e.units, <<>>)

\* ------------------------------------------------------------------------
\* BattleEngine.step: plan moves
\* ------------------------------------------------------------------------
\* occupied: every unit's rounded cell (alive or dead) and every move_target
\* of a move in flight
Occupied(units) ==
  {Rounded(units[i]) : i \in DOMAIN units}
    \cup {units[i].move_target : i \in {j \in DOMAIN units : units[j].move_target # NoCell}}

\* sources[i]
Sources(units) == Eager([i \in DOMAIN units |-> Rounded(units[i])])

\* owner_bias
owner_bias(owner) == IF owner = 0 THEN <<1, 0>> ELSE <<-1, 0>>

\* a unit plans only if alive, centred, not moving and off cooldown, with a
\* nearest enemy that is out of range
Plans(units, i) ==
  LET ui == units[i]
      t == nearest_enemy(units, i)
  IN  /\ is_alive(ui) /\ is_center(ui) /\ ui.move_target = NoCell /\ ui.cooldown = 0
      /\ t # 0
      /\ LET me == Rounded(ui)
             tp == Rounded(units[t])
         IN  hex_dist(me[1], me[2], tp[1], tp[2]) > UnitRange(ui.card_id)

\* ordered_options[i]: reducing + lateral, each sorted by its key
OrderedOptions(units, i) ==
  LET ui == units[i]
      me == Rounded(ui)
      tp == Rounded(units[nearest_enemy(units, i)])
      d0 == hex_dist(me[1], me[2], tp[1], tp[2])
      b == owner_bias(ui.owner)
      occ == Occupied(units)
      neigh == {n \in hex_neighbors(me[1], me[2]) : n \notin occ}
      reducing == {n \in neigh : hex_dist(n[1], n[2], tp[1], tp[2]) < d0}
      lateral == {n \in neigh : hex_dist(n[1], n[2], tp[1], tp[2]) = d0}
      rkey == [n \in reducing |->
                <<hex_dist(n[1], n[2], tp[1], tp[2]),
                  b[1] * (n[1] - me[1]), b[2] * (n[2] - me[2]), n[2], n[1]>>]
      lkey == [n \in lateral |->
                <<Abs(n[1] - tp[1]) + Abs(n[2] - tp[2]),
                  b[1] * (n[1] - me[1]), b[2] * (n[2] - me[2]), n[2], n[1]>>]
  IN  SortByKey(reducing, rkey) \o SortByKey(lateral, lkey)

\* ordered_options for the whole roster (<<>> for a unit that does not plan)
AllOptions(units) ==
  Eager([i \in DOMAIN units |-> IF Plans(units, i) THEN OrderedOptions(units, i) ELSE <<>>])

\* intents[i] = ordered[0] if ordered else None
InitialIntents(opts) ==
  Eager([i \in DOMAIN opts |-> IF opts[i] = <<>> THEN NoCell ELSE opts[i][1]])

\* head-on swap detection on the initial intents
Blocked(intents, sources) ==
  {i \in DOMAIN intents :
     /\ intents[i] # NoCell
     /\ \E j \in DOMAIN intents :
          /\ j # i /\ intents[j] # NoCell
          /\ intents[i] = sources[j] /\ intents[j] = sources[i]}

\* next((x for x in opts[k:] if x not in taken), None), k = opts.index(cur) + 1
NextOption(opts, cur, taken) ==
  LET k == CHOOSE n \in 1 .. Len(opts) : opts[n] = cur
      later == {n \in (k + 1) .. Len(opts) : opts[n] \notin taken}
  IN  IF later = {} THEN NoCell
      ELSE opts[CHOOSE n \in later : \A m \in later : n <= m]

\* ------------------------------------------------------------------------
\* BattleEngine.step: the allocator (the `while pending` loop).  pending[i]
\* always equals intents[i], so pending is kept as the set of its keys; the
\* dicts are walked in insertion order, which is roster order.
\* ------------------------------------------------------------------------
\* losers of one contested cell, in cand_key order: each takes its next free
\* option or leaves pending
RECURSIVE LosersFold(_, _, _, _)
LosersFold(losers, a, opts, taken) ==
  IF losers = <<>> THEN a
  ELSE LET k == Head(losers)
           nxt == NextOption(opts[k], a.intents[k], taken)
       IN  LosersFold(Tail(losers),
             IF nxt # NoCell
             THEN [a EXCEPT !.intents[k] = nxt]
             ELSE [a EXCEPT !.pending = @ \ {k}],
             opts, taken)

\* cand_key: (owner, source row, source col, index)
cand_key(units, sources, k) == <<units[k].owner, sources[k][1], sources[k][2], k>>

\* the cells claimed in one pass, in the order of their first claimant
RECURSIVE DecideFold(_, _, _, _, _, _)
DecideFold(cells, claims, a, opts, units, sources) ==
  IF cells = <<>> THEN a
  ELSE LET cell == Head(cells)
           cands == {i \in DOMAIN claims : claims[i] = cell}
           key == [k \in cands |-> cand_key(units, sources, k)]
           sorted == SortByKey(cands, key)
           win == sorted[1]
           taken1 == a.taken \cup {cell}
           a1 == [a EXCEPT !.taken = taken1, !.pending = @ \ {win}]
       IN  DecideFold(Tail(cells), claims,
                      LosersFold(Tail(sorted), a1, opts, taken1),
                      opts, units, sources)

RECURSIVE Allocate(_, _, _, _)
Allocate(a, opts, units, sources) ==
  IF a.pending = {} THEN a
  ELSE LET hit == {i \in a.pending : a.intents[i] \in a.taken}
           nxt == Eager([i \in hit |-> NextOption(opts[i], a.intents[i], a.taken)])
           \* claimants collected in this pass, with the cell each claims
           claims == Eager([i \in a.pending \ hit |-> a.intents[i]])
           first(cell) == CHOOSE i \in DOMAIN claims :
                            claims[i] = cell /\ \A j \in DOMAIN claims : claims[j] = cell => i <= j
           cellset == {claims[i] : i \in DOMAIN claims}
           ckey == [cell \in cellset |-> <<first(cell)>>]
           a1 == [a EXCEPT
                    !.intents = Eager([i \in DOMAIN a.intents |->
                                   IF i \in hit /\ nxt[i] # NoCell THEN nxt[i] ELSE a.intents[i]]),
                    !.pending = @ \ {i \in hit : nxt[i] = NoCell}]
       IN  IF cellset = {} THEN a1
           ELSE Allocate(DecideFold(SortByKey(cellset, ckey), claims, a1, opts, units, sources),
                         opts, units, sources)

\* the plan of one frame: the blocked set and the intents after the allocator
PlanMoves(units) ==
  LET Result(opts, sources, intents, blocked) ==
        [blocked |-> blocked,
         intents |-> Allocate(
           [intents |-> intents,
            pending |-> {i \in DOMAIN intents : intents[i] # NoCell /\ i \notin blocked},
            taken |-> Occupied(units)],
           opts, units, sources).intents]
      WithIntents(opts, sources, intents) ==
        Result(opts, sources, intents, Blocked(intents, sources))
      WithOptions(opts, sources) ==
        WithIntents(opts, sources, InitialIntents(opts))
  IN  WithOptions(AllOptions(units), Sources(units))

\* ------------------------------------------------------------------------
\* BattleEngine.step: perform moves and cooldowns, in roster order.
\* _reserved is set and cleared together with move_target, and every
\* move_target is already in `occupied`, so frame_occupied is `occupied` plus
\* the targets of the moves started earlier in this loop.
\* ------------------------------------------------------------------------
RECURSIVE PerformFold(_, _, _, _, _)
PerformFold(i, units, intents, blocked, frame_occupied) ==
  IF i > Len(units) THEN units
  ELSE LET u0 == units[i]
           \* tick cooldown
           ui == [u0 EXCEPT !.cooldown = IF @ > 0 THEN @ - 1 ELSE @]
           tgt == intents[i]
       IN  IF ui.move_target # NoCell
           THEN \* continue existing motion
                PerformFold(i + 1, [units EXCEPT ![i] = advance_move(ui)],
                            intents, blocked, frame_occupied)
           ELSE IF ~is_alive(ui) \/ ~is_center(ui)
           THEN PerformFold(i + 1, [units EXCEPT ![i] = ui], intents, blocked, frame_occupied)
           ELSE IF i \in blocked
           THEN PerformFold(i + 1,
                            [units EXCEPT ![i] = [ui EXCEPT !.cooldown = Max(@, BlockedTicks)]],
                            intents, blocked, frame_occupied)
           ELSE IF tgt # NoCell /\ tgt \notin frame_occupied
           THEN \* start_move; the unit does not advance on this frame
                PerformFold(i + 1, [units EXCEPT ![i] = [ui EXCEPT !.move_target = tgt]],
                            intents, blocked, frame_occupied \cup {tgt})
           ELSE PerformFold(i + 1, [units EXCEPT ![i] = ui], intents, blocked, frame_occupied)

\* ------------------------------------------------------------------------
\* BattleEngine.step: attacks, in roster order; a melee hit lands at once, so
\* a unit killed earlier in the loop no longer attacks
\* ------------------------------------------------------------------------
Attacks(units, i) ==
  LET ui == units[i]
      t == nearest_enemy(units, i)
  IN  /\ is_alive(ui) /\ ui.cooldown = 0
      /\ is_center(ui) /\ ui.move_target = NoCell
      /\ t # 0
      /\ LET me == Rounded(ui)
             tp == Rounded(units[t])
         IN  hex_dist(me[1], me[2], tp[1], tp[2]) <= UnitRange(ui.card_id)

RECURSIVE AttackFold(_, _)
AttackFold(i, e) ==
  IF i > Len(e.units) THEN e
  ELSE IF ~Attacks(e.units, i) THEN AttackFold(i + 1, e)
  ELSE LET ui == e.units[i]
           t == nearest_enemy(e.units, i)
           me == Rounded(ui)
           tp == Rounded(e.units[t])
           dmg == UnitDamage(ui.card_id, ui.star)
           cooled == [e.units EXCEPT ![i].cooldown = HitSpeedTicks]
       IN  IF IsRanged(ui.card_id)
           THEN AttackFold(i + 1,
                  [units |-> cooled,
                   projectiles |-> Append(e.projectiles,
                      [owner |-> ui.owner, dmg |-> dmg, target_idx |-> t,
                       remaining |-> TravelDecrements(hex_dist(me[1], me[2], tp[1], tp[2]))])])
           ELSE AttackFold(i + 1,
                  [units |-> [cooled EXCEPT ![t].hp = @ - dmg],
                   projectiles |-> e.projectiles])

\* ------------------------------------------------------------------------
\* BattleEngine.step(dt), dt = rules.SUB_TICK_DT
\* ------------------------------------------------------------------------
\* step(dt) up to its second projectile pass: the first pass, the moves and
\* the attacks
BeforeLastPass(e) ==
  LET Finish(e1, plan) ==
        AttackFold(1,
          [units |-> PerformFold(1, e1.units, plan.intents, plan.blocked,
                                 Occupied(e1.units)),
           projectiles |-> e1.projectiles])
      Moves(e1) == Finish(e1, PlanMoves(e1.units))
  IN  Moves(ProjectilePass(e))

EngineStep(e) == ProjectilePass(BeforeLastPass(e))

\* BattleEngine(units=units)
NewEngine(units) == [units |-> units, projectiles |-> <<>>]

\* ------------------------------------------------------------------------
\* State
\* ------------------------------------------------------------------------
VARIABLES
  round,      \* MTEnv.round
  turn,       \* MTEnv.turn: the active player
  in_battle,  \* MTEnv.in_battle
  done,       \* MTEnv.done
  pl,         \* MTEnv.p0, MTEnv.p1: PlayerState of player 0 and 1
  last_info,  \* MTEnv.last_info
  battles,    \* history: number of _run_battle calls so far
  passed,     \* history: the two has-actions flags as the auto-end logic of
              \* the last step() left them, before any battle
  snap,       \* history: the roster the last _run_battle handed to its
              \* BattleEngine, and the board units it was made from; for a
              \* BattleEngine on its own, the roster it was built from
  engine,     \* a BattleEngine: [units, projectiles]; for an MTEnv, the
              \* engine of the last _run_battle when its loop ended
  ticks       \* history: number of step(dt) calls made on `engine`

envVars == <<round, turn, in_battle, done, pl, last_info, battles, passed, snap>>
engineVars == <<engine, ticks>>
vars == <<round, turn, in_battle, done, pl, last_info, battles, passed, snap, engine, ticks>>

\* ------------------------------------------------------------------------
\* MTEnv helpers.  A PlayerState is a record [elixir, shop, bench, units,
\* actions_left, base_hp].  `units` is the dict pos -> Unit in insertion
\* order: a sequence of [pos, card_id, star, hp].
\* ------------------------------------------------------------------------
\* a PlayerState that starts with a Tank on cell (0, 0)
PlayerState_occupied(elixir, shop) ==
  [elixir |-> elixir, shop |-> shop, bench |-> <<>>,
   units |-> <<[pos |-> <<0, 0>>, card_id |-> 0, star |-> 1, hp |-> 1000 * TankHp]>>,
   actions_left |-> 1, base_hp |-> BASE_HP]

PlayerState(elixir, shop) ==
  [elixir |-> elixir, shop |-> shop, bench |-> <<>>, units |-> <<>>,
   actions_left |-> 1, base_hp |-> BASE_HP]

\* dict helpers: keys, lookup (0 when the key is absent), assignment, deletion
Keys(units) == {units[i].pos : i \in DOMAIN units}
IndexOf(units, pos) ==
  IF pos \in Keys(units) THEN CHOOSE i \in DOMAIN units : units[i].pos = pos ELSE 0
DictSet(units, pos, u) ==
  IF pos \in Keys(units)
  THEN [units EXCEPT ![IndexOf(units, pos)] = u]
  ELSE Append(units, u)
DictDel(units, pos) ==
  SelectSeq(units, LAMBDA u : u.pos # pos)

\* _unit_make as stored on a board: a fresh unit of full hp
board_unit(card_id, star, pos) ==
  [pos |-> pos, card_id |-> card_id, star |-> star, hp |-> UnitHp(card_id, star)]

\* _cost_of: the catalog carries no cost, every card costs the default
cost_of(card_id) == CARD_COST_DEFAULT

board_count(p, who) == Len(p[who].units)
cap(rnd) == unit_cap_for_round(rnd)
back_row(who) == IF who = 0 THEN 0 ELSE BOARD_ROWS - 1

empty_back_cols(p, who) ==
  {c \in 0 .. BOARD_COLS - 1 :
     /\ <<back_row(who), c>> \notin Keys(p[0].units)
     /\ <<back_row(who), c>> \notin Keys(p[1].units)}

has_empty_back_cell(p, who) == empty_back_cols(p, who) # {}

\* _can_buy_from_slot if the price were not compared with the elixir
can_buy_from_slot_any_price(p, rnd, who, slot_idx) ==
  /\ slot_idx >= 0
  /\ slot_idx < Len(p[who].shop)
  /\ board_count(p, who) < cap(rnd)
  /\ has_empty_back_cell(p, who)

\* _can_buy_from_slot if neither the price nor the unit cap were looked at
can_buy_from_slot_open(p, rnd, who, slot_idx) ==
  /\ slot_idx >= 0
  /\ slot_idx < Len(p[who].shop)
  /\ has_empty_back_cell(p, who)

can_buy_from_slot(p, rnd, who, slot_idx) ==
  /\ slot_idx >= 0
  /\ slot_idx < Len(p[who].shop)
  /\ p[who].elixir >= cost_of(p[who].shop[slot_idx + 1])
  /\ board_count(p, who) < cap(rnd)
  /\ has_empty_back_cell(p, who)

\* the pairs (i < j in dict order) legal_actions and _can_any_action accept
MergePairs(units) ==
  {<<units[i].pos, units[j].pos>> : <<i, j>> \in
     {ij \in (DOMAIN units) \X (DOMAIN units) :
        /\ ij[1] < ij[2]
        /\ units[ij[1]].card_id = units[ij[2]].card_id
        /\ units[ij[1]].star = units[ij[2]].star
        /\ units[ij[1]].star < 3
        /\ Abs(units[ij[1]].pos[1] - units[ij[2]].pos[1])
             + Abs(units[ij[1]].pos[2] - units[ij[2]].pos[2]) = 1}}

\* _can_any_action if a unit to sell did not count as something to do
can_any_action_but_sell(p, rnd, who) ==
  \/ \E si \in 0 .. Len(p[who].shop) - 1 : can_buy_from_slot(p, rnd, who, si)
  \/ /\ p[who].bench # <<>>
     /\ board_count(p, who) < cap(rnd)
     /\ has_empty_back_cell(p, who)
  \/ MergePairs(p[who].units) # {}

can_any_action(p, rnd, who) ==
  \/ \E si \in 0 .. Len(p[who].shop) - 1 : can_buy_from_slot(p, rnd, who, si)
  \/ /\ p[who].bench # <<>>
     /\ board_count(p, who) < cap(rnd)
     /\ has_empty_back_cell(p, who)
  \/ MergePairs(p[who].units) # {}
  \/ p[who].units # <<>>

\* a legal-action list of the deploy phase without the closing END entry
legal_actions_of_without_end(p, rnd, who, isDone, inBattle) ==
  IF isDone \/ inBattle THEN {<<"END">>}
  ELSE
    {<<"BUY_PLACE", si, col>> : <<si, col>> \in
       {x \in (0 .. Len(p[who].shop) - 1) \X empty_back_cols(p, who) :
          can_buy_from_slot(p, rnd, who, x[1])}}
    \cup
    (IF p[who].bench # <<>> /\ board_count(p, who) < cap(rnd)
     THEN {<<"PLACE_FROM_BENCH", bi, col>> : <<bi, col>> \in
             (0 .. Len(p[who].bench) - 1) \X empty_back_cols(p, who)}
     ELSE {})
    \cup {<<"MERGE", m[1], m[2]>> : m \in MergePairs(p[who].units)}
    \cup {<<"SELL", pos>> : pos \in Keys(p[who].units)}

\* legal_actions, as a set of tuples <<kind, args...>>
legal_actions_of(p, rnd, who, isDone, inBattle) ==
  IF isDone \/ inBattle THEN {<<"END">>}
  ELSE
    {<<"BUY_PLACE", si, col>> : <<si, col>> \in
       {x \in (0 .. Len(p[who].shop) - 1) \X empty_back_cols(p, who) :
          can_buy_from_slot(p, rnd, who, x[1])}}
    \cup
    (IF p[who].bench # <<>> /\ board_count(p, who) < cap(rnd)
     THEN {<<"PLACE_FROM_BENCH", bi, col>> : <<bi, col>> \in
             (0 .. Len(p[who].bench) - 1) \X empty_back_cols(p, who)}
     ELSE {})
    \cup {<<"MERGE", m[1], m[2]>> : m \in MergePairs(p[who].units)}
    \cup {<<"SELL", pos>> : pos \in Keys(p[who].units)}
    \cup {<<"END">>}

legal_actions == legal_actions_of(pl, round, turn, done, in_battle)

\* observe(): the board code of a unit of player `who`
board_code(who, u) == (who + 1) * 10 + (u.card_id % 10) * 3 + u.star

\* observe(): the observation dict, with the legal-action list as `mask`;
\* on the board array player 1's units are written after player 0's
observe ==
  [board |-> [c \in Cells |->
                IF c \in Keys(pl[1].units)
                THEN board_code(1, pl[1].units[IndexOf(pl[1].units, c)])
                ELSE IF c \in Keys(pl[0].units)
                THEN board_code(0, pl[0].units[IndexOf(pl[0].units, c)])
                ELSE 0],
   p0_elixir |-> pl[0].elixir,
   p1_elixir |-> pl[1].elixir,
   round |-> round,
   turn |-> turn,
   in_battle |-> in_battle,
   p0_actions_left |-> pl[0].actions_left,
   p1_actions_left |-> pl[1].actions_left,
   p0_shop |-> pl[0].shop,
   p1_shop |-> pl[1].shop,
   unit_cap |-> cap(round),
   mask |-> legal_actions]

\* ------------------------------------------------------------------------
\* MTEnv._run_battle
\* ------------------------------------------------------------------------
\* The roster handed to the BattleEngine: player 0's board in dict order, then
\* player 1's; every unit is made anew from its card id, its star and its key.
RosterOf(units, owner) ==
  [i \in DOMAIN units |->
     unit_make(owner, units[i].card_id, units[i].star, units[i].pos)]

Snapshot(p) == Eager(RosterOf(p[0].units, 0) \o RosterOf(p[1].units, 1))

Wiped(e) ==
  LET a == alive_counts(e.units) IN a[1] = 0 \/ a[2] = 0

\* rules.ABSOLUTE_BATTLE_TIME_CAP = 300.0 and rules.SUB_TICK_DT = 0.1 seconds,
\* in thousandths of a second
ABSOLUTE_BATTLE_TIME_CAP == 300000
SUB_TICK_DT == 100

\* `while t < ABSOLUTE_BATTLE_TIME_CAP: ...; t += dt` runs its body at most
\* this many times (t accumulates 0.1 in floating point)
BattleIterations == 3001

\* one pass of the loop body on [engine, steps, stopped]
LoopBody(s) ==
  IF s.stopped THEN s
  ELSE IF Wiped(s.engine) THEN [s EXCEPT !.stopped = TRUE]
  ELSE [engine |-> EngineStep(s.engine), steps |-> s.steps + 1, stopped |-> FALSE]

\* n passes of the loop body
RECURSIVE BattleLoop(_, _)
BattleLoop(s, n) ==
  IF n = 0 THEN s
  ELSE IF n = 1 THEN LoopBody(s)
  ELSE LET m == BattleLoop(s, n \div 2)
       IN  IF m.steps >= 0 /\ ~m.stopped THEN BattleLoop(m, n - (n \div 2)) ELSE m

\* engine.units written back into a player's dict, keyed by rounded position
RECURSIVE WriteBack(_, _, _, _)
WriteBack(eunits, i, owner, acc) ==
  IF i > Len(eunits) THEN acc
  ELSE IF eunits[i].owner # owner THEN WriteBack(eunits, i + 1, owner, acc)
  ELSE LET u == eunits[i]
           pos == Rounded(u)
       IN  WriteBack(eunits, i + 1, owner,
             DictSet(acc, pos, [pos |-> pos, card_id |-> u.card_id,
                                star |-> u.star, hp |-> u.hp]))

\* the winner if a side with alive units won whatever the other side had
Winner_any_alive(p0_alive, p1_alive) ==
  IF p0_alive > 0 THEN 0
  ELSE IF p1_alive > 0 THEN 1
  ELSE -1

\* the winner of a battle from the alive counts, -1 for none
Winner(p0_alive, p1_alive) ==
  IF p0_alive > 0 /\ p1_alive = 0 THEN 0
  ELSE IF p1_alive > 0 /\ p0_alive = 0 THEN 1
  ELSE -1

\* a base is destroyed as `p0.base_hp < 0 or p1.base_hp < 0` would test it
base_destroyed_strict(hp0, hp1) == hp0 < 0 \/ hp1 < 0

\* `if self.p0.base_hp <= 0 or self.p1.base_hp <= 0`
base_destroyed(hp0, hp1) == hp0 <= 0 \/ hp1 <= 0

\* the damage to the loser's base as a flat 1 would set it
base_damage_flat(alive) == 1

\* `max(1, alive)`: what the loser's base_hp is reduced by
base_damage(alive) == Max(1, alive)

\* the whole of _run_battle on the players p: [pl, done, last_info, engine, steps]
run_battle(p, isDone) ==
  LET Outcome(fin, alive, winner, hp0, hp1) ==
        [pl |-> [p EXCEPT ![0].units = WriteBack(fin.engine.units, 1, 0, <<>>),
                          ![1].units = WriteBack(fin.engine.units, 1, 1, <<>>),
                          ![0].base_hp = Max(0, hp0),
                          ![1].base_hp = Max(0, hp1)],
         done |-> (isDone \/ base_destroyed(hp0, hp1)),
         last_info |-> [p0_alive |-> alive[1], p1_alive |-> alive[2], winner |-> winner],
         engine |-> fin.engine,
         steps |-> fin.steps]
      Damage(fin, alive, winner) ==
        Outcome(fin, alive, winner,
                IF winner = 1 THEN p[0].base_hp - base_damage(alive[2]) ELSE p[0].base_hp,
                IF winner = 0 THEN p[1].base_hp - base_damage(alive[1]) ELSE p[1].base_hp)
      Settle(fin, alive) == Damage(fin, alive, Winner(alive[1], alive[2]))
      AfterLoop(fin) == Settle(fin, alive_counts(fin.engine.units))
  IN  AfterLoop(BattleLoop([engine |-> NewEngine(Snapshot(p)), steps |-> 0,
                            stopped |-> FALSE], BattleIterations))

\* a round reset that gives the actions back and leaves the elixir as it is
end_round_reset_no_income(p) ==
  [p EXCEPT ![0].actions_left = 1, ![1].actions_left = 1]

\* MTEnv._end_round_reset on the players p
end_round_reset(p) ==
  [p EXCEPT ![0].actions_left = 1, ![1].actions_left = 1,
            ![0].elixir = START_ELIXIR, ![1].elixir = START_ELIXIR]

\* ------------------------------------------------------------------------
\* MTEnv: reset() and step()
\* ------------------------------------------------------------------------
\* Bounds on what the two agents and the random generator are asked for:
\* the shops a new game starts with and the cards _rand_offer draws for a
\* bought slot, the slots and columns the agents name, the last round in which
\* player 0 (MaxActRound) and player 1 (MaxActRoundP1) submit anything but
\* END, the last round in which they submit a SELL (MaxSellRound), and a cell
\* they name although no unit of theirs stands on it.
InitShops == {<<0, 1, 0>>}
OfferInputs == {0}
SlotInputs == 0 .. 1
ColInputs(who) == IF who = 0 THEN 1 .. 2 ELSE 1 .. 1
MaxActRound == 3
MaxActRoundP1 == 1
MaxSellRound == 1
ProbeCell == <<3, 3>>
CellInputs(who) == Keys(pl[who].units) \cup {ProbeCell}

\* reset(): the state a new MTEnv is in
Init ==
  /\ round = 1
  /\ turn = 0
  /\ in_battle = FALSE
  /\ done = FALSE
  /\ \E s0 \in InitShops, s1 \in InitShops :
       pl = [who \in 0 .. 1 |-> PlayerState(START_ELIXIR, IF who = 0 THEN s0 ELSE s1)]
  /\ last_info = [p0_alive |-> 0, p1_alive |-> 0, winner |-> -2]
  /\ battles = 0
  /\ passed = <<1, 1>>
  /\ snap = [roster |-> <<>>, boards |-> <<>>]
  /\ engine = NewEngine(<<>>)
  /\ ticks = 0

\* the active player's flag if an END counted as a pass only when nothing
\* else could be done
flag_after_lenient(p, rnd, who, atype) ==
  IF can_any_action(p, rnd, who) THEN 1 ELSE 0

\* the auto-end logic: the active player's has-actions flag after an action
\* of kind atype
flag_after(p, rnd, who, atype) ==
  IF atype = "END" THEN 0
  ELSE IF can_any_action(p, rnd, who) THEN 1 ELSE 0

\* the battle trigger if one player's pass were enough
both_passed_either(p) == p[0].actions_left = 0 \/ p[1].actions_left = 0

\* `if self.p0.actions_left == 0 and self.p1.actions_left == 0`
both_passed(p) == p[0].actions_left = 0 /\ p[1].actions_left = 0

\* the turn handoff if the turn went to the other player whenever that
\* player can act
handoff_eager(p, who) ==
  IF p[1 - who].actions_left # 0 THEN 1 - who ELSE who

\* the turn handoff of step(): the player to act next when `who` acted
handoff(p, who) ==
  IF p[who].actions_left = 0 /\ p[1 - who].actions_left # 0 THEN 1 - who ELSE who

\* step() from the auto-end logic on: p is the players after the action's
\* branch, atype the action's kind
StepTail(p, atype) ==
  LET Battle(b, p2) ==
        /\ round' = round + 1
        /\ battles' = battles + 1
        /\ passed' = <<p2[0].actions_left, p2[1].actions_left>>
        /\ snap' = [roster |-> Snapshot(p2), boards |-> p2[0].units \o p2[1].units]
        /\ pl' = end_round_reset(b.pl)
        /\ turn' = 1 - turn
        /\ done' = (b.done \/ round + 1 > MAX_ROUNDS)
        /\ last_info' = b.last_info
        /\ engine' = b.engine
        /\ ticks' = b.steps
        /\ in_battle' = FALSE
      Handoff(p2) ==
        /\ pl' = p2
        /\ passed' = <<p2[0].actions_left, p2[1].actions_left>>
        /\ turn' = handoff(p2, turn)
        /\ in_battle' = FALSE
        /\ UNCHANGED <<round, done, last_info, battles, snap, engine, ticks>>
      Flagged(p2) ==
        IF both_passed(p2)
        THEN Battle(run_battle(p2, done), p2)
        ELSE Handoff(p2)
  IN  Flagged([p EXCEPT ![turn].actions_left = flag_after(p, round, turn, atype)])

\* a BUY_PLACE branch that draws a new offer for every slot of the shop
buy_place_reshuffle(p, rnd, who, si, col, offer) ==
  IF can_buy_from_slot(p, rnd, who, si) /\ col \in empty_back_cols(p, who)
  THEN [p EXCEPT
          ![who].elixir = @ - cost_of(p[who].shop[si + 1]),
          ![who].units = DictSet(@, <<back_row(who), col>>,
                                 board_unit(p[who].shop[si + 1], 1, <<back_row(who), col>>)),
          ![who].shop = [i \in 1 .. STORE_SLOTS |-> offer]]
  ELSE p

\* the BUY_PLACE branch of step() on the players
buy_place(p, rnd, who, si, col, offer) ==
  IF can_buy_from_slot(p, rnd, who, si) /\ col \in empty_back_cols(p, who)
  THEN [p EXCEPT
          ![who].elixir = @ - cost_of(p[who].shop[si + 1]),
          ![who].units = DictSet(@, <<back_row(who), col>>,
                                 board_unit(p[who].shop[si + 1], 1, <<back_row(who), col>>)),
          ![who].shop = [@ EXCEPT ![si + 1] = offer]]
  ELSE p

\* step(("BUY_PLACE", (si, col))); offer is what _rand_offer draws for the slot
BuyPlace(si, col, offer) ==
  /\ ~done
  /\ StepTail(buy_place(pl, round, turn, si, col, offer), "BUY_PLACE")

\* the PLACE_FROM_BENCH branch of step() on the players
place_from_bench(p, rnd, who, bi, col) ==
  IF /\ 0 <= bi /\ bi < Len(p[who].bench)
     /\ board_count(p, who) < cap(rnd)
     /\ col \in empty_back_cols(p, who)
  THEN [p EXCEPT
          ![who].bench = SubSeq(@, 1, bi) \o SubSeq(@, bi + 2, Len(@)),
          ![who].units = DictSet(@, <<back_row(who), col>>,
                                 board_unit(p[who].bench[bi + 1][1], p[who].bench[bi + 1][2],
                                            <<back_row(who), col>>))]
  ELSE p

\* step(("PLACE_FROM_BENCH", (bi, col)))
PlaceFromBench(bi, col) ==
  /\ ~done
  /\ StepTail(place_from_bench(pl, round, turn, bi, col), "PLACE_FROM_BENCH")

\* a SELL branch that pays the price of a card back
sell_full_refund(p, who, pos) ==
  IF pos \in Keys(p[who].units)
  THEN [p EXCEPT ![who].units = DictDel(@, pos),
                 ![who].elixir = @ + CARD_COST_DEFAULT]
  ELSE p

\* the SELL branch of step() on the players
sell(p, who, pos) ==
  IF pos \in Keys(p[who].units)
  THEN [p EXCEPT ![who].units = DictDel(@, pos), ![who].elixir = @ + SELL_REFUND]
  ELSE p

\* step(("SELL", (pos,)))
Sell(pos) ==
  /\ ~done
  /\ StepTail(sell(pl, turn, pos), "SELL")

\* the MERGE branch of step() on the active player's dict
\* the MERGE branch if it promoted the unit on p1 and kept the one on p2
merge_units_keep(units, p1, p2) ==
  LET Merged(u1, u2) ==
        IF u1.card_id = u2.card_id /\ u1.star = u2.star /\ u1.star < 3
        THEN DictSet(units, p1, board_unit(u1.card_id, u1.star + 1, p1))
        ELSE units
  IN  IF p1 \in Keys(units) /\ p2 \in Keys(units)
      THEN Merged(units[IndexOf(units, p1)], units[IndexOf(units, p2)])
      ELSE units

merge_units(units, p1, p2) ==
  LET Merged(u1, u2) ==
        IF u1.card_id = u2.card_id /\ u1.star = u2.star /\ u1.star < 3
        THEN DictDel(DictSet(units, p1, board_unit(u1.card_id, u1.star + 1, p1)), p2)
        ELSE units
  IN  IF p1 \in Keys(units) /\ p2 \in Keys(units)
      THEN Merged(units[IndexOf(units, p1)], units[IndexOf(units, p2)])
      ELSE units

\* step(("MERGE", (p1, p2)))
Merge(p1, p2) ==
  /\ ~done
  /\ StepTail([pl EXCEPT ![turn].units = merge_units(@, p1, p2)], "MERGE")

\* step(("END", ())) if the pass also refilled the passing player's elixir
EndRefilled ==
  /\ ~done
  /\ StepTail([pl EXCEPT ![turn].elixir = START_ELIXIR], "END")

\* step(("END", ()))
End ==
  /\ ~done
  /\ StepTail(pl, "END")

\* step() with a kind none of the branches knows
Unknown ==
  /\ ~done
  /\ StepTail(pl, "NOOP")

\* step() once the game is done if the done guard were missing: the call is
\* played as a pass
StepWhenDonePlayed ==
  /\ done
  /\ StepTail(pl, "END")

\* step() once the game is done: observe() only
StepWhenDone ==
  /\ done
  /\ UNCHANGED vars

\* the agents submit END at any time, a SELL up to round MaxSellRound and
\* anything else up to round MaxActRound (player 0) or MaxActRoundP1
Acting == round <= (IF turn = 0 THEN MaxActRound ELSE MaxActRoundP1)
Selling == round <= MaxSellRound

Next ==
  \/ \E si \in SlotInputs, col \in ColInputs(turn), offer \in OfferInputs :
       Acting /\ BuyPlace(si, col, offer)
  \/ \E bi \in 0 .. 0, col \in ColInputs(turn) : Acting /\ PlaceFromBench(bi, col)
  \/ \E pos \in CellInputs(turn) : Selling /\ Sell(pos)
  \/ \E p1 \in CellInputs(turn), p2 \in CellInputs(turn) : Acting /\ Merge(p1, p2)
  \/ End
  \/ Acting /\ Unknown
  \/ StepWhenDone

Spec == Init /\ [][Next]_vars

\* ------------------------------------------------------------------------
\* A BattleEngine on its own: BattleEngine(units) and repeated step(dt)
\* ------------------------------------------------------------------------
\* Bounds: the cells the first unit of each owner starts on, and the number
\* of step(dt) calls.
RosterCells0 == {<<0, 3>>, <<3, 0>>, <<1, 2>>, <<1, 3>>}
RosterCells1 == {<<2, 3>>, <<2, 2>>, <<4, 2>>, <<2, 0>>}
MaxTicks == 24

\* the rest of player 0's side: nothing, or a second unit, an Archer on (1,1)
\* or a Tank on (0,3)
MoreUnits0 ==
  {<<>>, <<unit_make(0, 1, 1, <<1, 1>>)>>, <<unit_make(0, 0, 1, <<0, 3>>)>>}

\* BattleEngine(units) for a roster of one or two units of owner 0 and one of
\* owner 1, on distinct cells
EngineInit ==
  /\ round = 1
  /\ turn = 0
  /\ in_battle = FALSE
  /\ done = FALSE
  /\ pl = [who \in 0 .. 1 |-> PlayerState(START_ELIXIR, <<0, 1, 0>>)]
  /\ last_info = [p0_alive |-> 0, p1_alive |-> 0, winner |-> -2]
  /\ battles = 0
  /\ passed = <<1, 1>>
  /\ \E c0 \in TROOP_IDS, c1 \in TROOP_IDS, a \in RosterCells0, b \in RosterCells1,
        more \in MoreUnits0 :
       /\ a # b
       /\ \A i \in DOMAIN more : more[i].cell \notin {a, b}
       /\ engine = NewEngine(<<unit_make(0, c0, 1, a)>> \o more
                               \o <<unit_make(1, c1, 1, b)>>)
  /\ snap = [roster |-> engine.units, boards |-> <<>>]
  /\ ticks = 0

\* BattleEngine.step(dt)
Tick ==
  /\ ticks < MaxTicks
  /\ engine' = EngineStep(engine)
  /\ ticks' = ticks + 1
  /\ UNCHANGED envVars

EngineNext == Tick

EngineSpec == EngineInit /\ [][EngineNext]_vars

\* ------------------------------------------------------------------------
\* The deploy phase of round 6, the first round whose unit cap a board can
\* reach
\* ------------------------------------------------------------------------
\* Bound: the round the agents act in; later rounds are played with END only.
DeployRound == 6

\* a board unit with the hp a battle left it
board_unit_hp(card_id, pos, hp) == [board_unit(card_id, 1, pos) EXCEPT !.hp = hp]

\* an engine unit as a battle left it
engine_unit(owner, card_id, hp, cooldown, cell, move_target, prog, rc) ==
  [unit_make(owner, card_id, 1, cell) EXCEPT
     !.hp = hp, !.cooldown = cooldown, !.move_target = move_target,
     !.prog = prog, !.rc = rc]

\* the state at the start of round 6 after reset() with shops (0, 1, 0), every
\* refill a Tank, and the steps
\*   BUY_PLACE(0,2) END | BUY_PLACE(1,3) END | BUY_PLACE(0,1) END |
\*   BUY_PLACE(0,0) END | BUY_PLACE(1,4) END END | BUY_PLACE(0,2) END END |
\*   BUY_PLACE(1,3) END END
\* (player 0 buys in rounds 1, 3 and 5, player 1 in rounds 1 and 2; player 0
\* buys again in rounds 2 and 4 after player 1 has passed)
DeployInit ==
  /\ round = DeployRound
  /\ turn = 0
  /\ in_battle = FALSE
  /\ done = FALSE
  /\ pl = [who \in 0 .. 1 |->
             IF who = 0
             THEN [PlayerState(START_ELIXIR, <<0, 0, 0>>) EXCEPT
                     !.units = <<board_unit_hp(0, <<5, 2>>, 4000),
                                 board_unit_hp(0, <<5, 0>>, -200),
                                 board_unit_hp(1, <<2, 3>>, 2000),
                                 board_unit_hp(0, <<2, 1>>, 4000),
                                 board_unit_hp(0, <<1, 2>>, 4000)>>]
             ELSE [PlayerState(START_ELIXIR, <<0, 0, 0>>) EXCEPT
                     !.units = <<board_unit_hp(1, <<5, 1>>, -400),
                                 board_unit_hp(0, <<6, 0>>, -1400)>>,
                     !.base_hp = 1]]
  /\ last_info = [p0_alive |-> 4, p1_alive |-> 0, winner |-> 0]
  /\ battles = DeployRound - 1
  /\ passed = <<0, 0>>
  /\ snap = [roster |-> <<unit_make(0, 0, 1, <<5, 2>>), unit_make(0, 0, 1, <<5, 0>>),
                          unit_make(0, 1, 1, <<2, 3>>), unit_make(0, 0, 1, <<1, 1>>),
                          unit_make(0, 0, 1, <<0, 3>>), unit_make(1, 1, 1, <<5, 1>>),
                          unit_make(1, 0, 1, <<6, 0>>)>>,
             boards |-> <<board_unit_hp(0, <<5, 2>>, -800),
                          board_unit_hp(0, <<5, 0>>, -200),
                          board_unit_hp(1, <<2, 3>>, 2000),
                          board_unit_hp(0, <<1, 1>>, 4000),
                          board_unit_hp(0, <<0, 3>>, 4000),
                          board_unit_hp(1, <<5, 1>>, -2200),
                          board_unit_hp(0, <<6, 0>>, -1400)>>]
  /\ engine =
       [units |-> <<engine_unit(0, 0, 4000, 11, <<5, 2>>, NoCell, 0, <<5, 2>>),
                    engine_unit(0, 0, -200, 0, <<5, 0>>, NoCell, 0, <<5, 0>>),
                    engine_unit(0, 1, 2000, 0, <<2, 3>>, NoCell, 0, <<2, 3>>),
                    engine_unit(0, 0, 4000, 0, <<2, 1>>, <<3, 0>>, 0, <<2, 1>>),
                    engine_unit(0, 0, 4000, 0, <<0, 3>>, <<1, 2>>, 11, <<1, 2>>),
                    engine_unit(1, 1, -400, 0, <<5, 1>>, NoCell, 0, <<5, 1>>),
                    engine_unit(1, 0, -1400, 0, <<6, 0>>, NoCell, 0, <<6, 0>>)>>,
        projectiles |-> <<>>]
  /\ ticks = 12

\* player 1 submits END only; player 0 submits END at any time and anything
\* else in round DeployRound, selling and merging on the two back-row cells
\* it buys on, on (1,2), where a Tank stands, and on (5,0), where one died
DeployActing == round = DeployRound /\ turn = 0
DeployCells == {<<0, 1>>, <<0, 2>>, <<1, 2>>, <<5, 0>>}

DeployNext ==
  \/ \E si \in SlotInputs, col \in ColInputs(turn), offer \in OfferInputs :
       DeployActing /\ BuyPlace(si, col, offer)
  \/ \E bi \in 0 .. 0, col \in ColInputs(turn) : DeployActing /\ PlaceFromBench(bi, col)
  \/ \E pos \in DeployCells : DeployActing /\ Sell(pos)
  \/ \E p1 \in DeployCells, p2 \in DeployCells : DeployActing /\ Merge(p1, p2)
  \/ End
  \/ DeployActing /\ Unknown
  \/ StepWhenDone

DeploySpec == DeployInit /\ [][DeployNext]_vars

\* ------------------------------------------------------------------------
\* Round 3 with both players buying
\* ------------------------------------------------------------------------
\* Bound: the round the agents buy in; later rounds are played with END only.
ClashRound == 3

\* the state at the start of round 3 after reset() with shops (0, 1, 0), every
\* refill a Tank, and the steps
\*   BUY_PLACE(1,2) END | BUY_PLACE(2,0) END | BUY_PLACE(2,0) END |
\*   BUY_PLACE(0,0) END
\* (an Archer for player 0 and a Tank for player 1 in round 1, a Tank each in
\* round 2)
ClashInit ==
  /\ round = ClashRound
  /\ turn = 0
  /\ in_battle = FALSE
  /\ done = FALSE
  /\ pl = [who \in 0 .. 1 |->
             IF who = 0
             THEN [PlayerState(START_ELIXIR, <<0, 0, 0>>) EXCEPT
                     !.units = <<board_unit_hp(1, <<2, 1>>, -1600),
                                 board_unit_hp(0, <<2, 2>>, 4000)>>]
             ELSE [PlayerState(START_ELIXIR, <<0, 1, 0>>) EXCEPT
                     !.units = <<board_unit_hp(0, <<2, 0>>, -200),
                                 board_unit_hp(0, <<3, 0>>, -800)>>,
                     !.base_hp = 8]]
  /\ last_info = [p0_alive |-> 1, p1_alive |-> 0, winner |-> 0]
  /\ battles = ClashRound - 1
  /\ passed = <<0, 0>>
  /\ snap = [roster |-> <<unit_make(0, 1, 1, <<1, 1>>), unit_make(0, 0, 1, <<0, 0>>),
                          unit_make(1, 0, 1, <<2, 0>>), unit_make(1, 0, 1, <<7, 0>>)>>,
             boards |-> <<board_unit_hp(1, <<1, 1>>, 2000),
                          board_unit_hp(0, <<0, 0>>, 4000),
                          board_unit_hp(0, <<2, 0>>, -800),
                          board_unit_hp(0, <<7, 0>>, 4000)>>]
  /\ engine =
       [units |-> <<engine_unit(0, 1, -1600, 10, <<2, 1>>, NoCell, 0, <<2, 1>>),
                    engine_unit(0, 0, 4000, 0, <<1, 1>>, <<2, 2>>, 10, <<2, 2>>),
                    engine_unit(1, 0, -200, 0, <<2, 0>>, NoCell, 0, <<2, 0>>),
                    engine_unit(1, 0, -800, 10, <<3, 0>>, NoCell, 0, <<3, 0>>)>>,
        projectiles |-> <<>>]
  /\ ticks = 45

\* in round ClashRound both players submit END, a BUY_PLACE on the first or
\* the last back-row column, or a SELL of a unit the round started with; the
\* game is followed up to the battle of that round
ClashCols == {0, BOARD_COLS - 1}
ClashCells == {<<2, 1>>, <<2, 2>>, <<2, 0>>, <<3, 0>>}

ClashNext ==
  \/ \E si \in SlotInputs, col \in ClashCols, offer \in OfferInputs :
       round = ClashRound /\ BuyPlace(si, col, offer)
  \/ \E pos \in ClashCells : round = ClashRound /\ Sell(pos)
  \/ round = ClashRound /\ End

ClashSpec == ClashInit /\ [][ClashNext]_vars

\* ------------------------------------------------------------------------
\* Properties
\* ------------------------------------------------------------------------
\* what a rejected action must leave alone: both boards, elixirs, shops,
\* benches and base healths, the round, the active player and the done flag
SameGame ==
  /\ \A who \in 0 .. 1 :
       /\ pl'[who].units = pl[who].units
       /\ pl'[who].elixir = pl[who].elixir
       /\ pl'[who].shop = pl[who].shop
       /\ pl'[who].bench = pl[who].bench
       /\ pl'[who].base_hp = pl[who].base_hp
  /\ round' = round
  /\ turn' = turn
  /\ done' = done

\* the step is a step() call whose action is not in legal_actions()
IllegalStep ==
  \/ \E si \in SlotInputs, col \in ColInputs(turn), offer \in OfferInputs :
       <<"BUY_PLACE", si, col>> \notin legal_actions /\ BuyPlace(si, col, offer)
  \/ \E bi \in 0 .. 0, col \in ColInputs(turn) :
       <<"PLACE_FROM_BENCH", bi, col>> \notin legal_actions /\ PlaceFromBench(bi, col)
  \/ \E pos \in CellInputs(turn) :
       <<"SELL", pos>> \notin legal_actions /\ Sell(pos)
  \/ \E p1 \in CellInputs(turn), p2 \in CellInputs(turn) :
       <<"MERGE", p1, p2>> \notin legal_actions /\ Merge(p1, p2)
  \/ Unknown
  \/ StepWhenDone

\* C1 (as stated): a step() whose action is not in legal_actions() leaves the
\* boards, elixirs, shops, benches, base healths, round, active player and
\* done flag as they were.
C1_IllegalActionRejected == [][IllegalStep => SameGame]_vars

\* C2: in every reachable state, done holds if and only if some player's
\* base health is at most 0 or the round number exceeds MAX_ROUNDS.
C2_DoneIffBaseOrRounds ==
  done <=> (pl[0].base_hp <= 0 \/ pl[1].base_hp <= 0 \/ round > MAX_ROUNDS)

\* a game that ended on a destroyed base before the round cap
C2_Witness ==
  done /\ round <= MAX_ROUNDS /\ (pl[0].base_hp <= 0 \/ pl[1].base_hp <= 0)

\* the units of owner `who` alive in the engine
AliveOf(e, who) ==
  Cardinality({i \in DOMAIN e.units : e.units[i].owner = who /\ e.units[i].hp > 0})

\* the step ran a battle that player w won: w has a unit alive when the
\* battle's engine stopped and the other player has none
BattleWonBy(w) ==
  /\ battles' = battles + 1
  /\ AliveOf(engine', w) > 0
  /\ AliveOf(engine', 1 - w) = 0

\* C3 (as stated): after a battle with a winner the loser's base health is
\* its value before the battle minus max(1, the winner's alive units),
\* whatever that value was, and the winner's base health is unchanged.
C3_LoserPaysFullDamage ==
  [][\A w \in 0 .. 1 :
       BattleWonBy(w) =>
         /\ pl'[1 - w].base_hp = pl[1 - w].base_hp - Max(1, AliveOf(engine', w))
         /\ pl'[w].base_hp = pl[w].base_hp]_vars

\* C3 (amended): after a battle with a winner the loser's base health is
\* its value before the battle minus max(1, the winner's alive units), but
\* never below 0, and the winner's base health is unchanged.
C3_LoserPaysDamageClamped ==
  [][\A w \in 0 .. 1 :
       BattleWonBy(w) =>
         /\ pl'[1 - w].base_hp =
              Max(0, pl[1 - w].base_hp - Max(1, AliveOf(engine', w)))
         /\ pl'[w].base_hp = pl[w].base_hp]_vars

\* a battle just won with two units alive took 2 off the loser's base
C3_Witness ==
  /\ battles > 0
  /\ last_info.winner = 0
  /\ AliveOf(engine, 0) = 2
  /\ pl[1].base_hp = BASE_HP - 2

\* C4 (as stated): the roster a battle starts from keeps each board unit's
\* type id, star, position and current hp, so a unit that is dead on its
\* owner's board is dead in the roster too.
C4_SnapshotKeepsHp ==
  \A i \in DOMAIN snap.roster :
    /\ snap.roster[i].card_id = snap.boards[i].card_id
    /\ snap.roster[i].star = snap.boards[i].star
    /\ snap.roster[i].cell = snap.boards[i].pos
    /\ snap.roster[i].hp = snap.boards[i].hp

\* C5 (as stated): from a roster on pairwise distinct cells, after any
\* number of BattleEngine.step calls no two units have the same rounded
\* cell, and no unit's committed move destination is another unit's current
\* cell or another unit's committed destination.
C5_NoSharedCell ==
  \A i \in DOMAIN engine.units : \A j \in DOMAIN engine.units :
    i # j =>
      /\ Rounded(engine.units[i]) # Rounded(engine.units[j])
      /\ engine.units[i].move_target # NoCell =>
           /\ engine.units[i].move_target # Rounded(engine.units[j])
           /\ engine.units[i].move_target # engine.units[j].move_target

\* cells a and b are neighbours on the odd-row offset hex grid
HexAdjacent(a, b) == b \in hex_neighbors(a[1], a[2])

\* the unit of the board `units` on cell pos
UnitAt(units, pos) == units[IndexOf(units, pos)]

\* p1 and p2 are occupied cells of `units` whose merge must be rejected:
\* stars differ, types differ, the star is 3, or the cells are not adjacent
MustReject(units, p1, p2) ==
  /\ p1 \in Keys(units)
  /\ p2 \in Keys(units)
  /\ \/ UnitAt(units, p1).star # UnitAt(units, p2).star
     \/ UnitAt(units, p1).card_id # UnitAt(units, p2).card_id
     \/ UnitAt(units, p1).star = 3
     \/ ~HexAdjacent(p1, p2)

\* C6 (as stated): step(MERGE(A, B)) on two occupied cells of the active
\* player leaves that player's board unchanged whenever the stars differ,
\* the types differ, the star is 3, or A and B are not adjacent (A = B
\* included).
C6_BadMergeRejected ==
  [][\A p1 \in CellInputs(turn), p2 \in CellInputs(turn) :
       (MustReject(pl[turn].units, p1, p2) /\ Merge(p1, p2))
         => pl'[turn].units = pl[turn].units]_vars

\* the unordered pairs of cells legal_actions() offers as MERGE
OfferedMerges == {{a[2], a[3]} : a \in {x \in legal_actions : x[1] = "MERGE"}}

\* the unordered pairs of distinct cells of `units` that hold two units of
\* the same type and the same star below 3 on hex-adjacent cells
HexMergePairs(units) ==
  {{a, b} : <<a, b>> \in
     {ab \in Keys(units) \X Keys(units) :
        /\ ab[1] # ab[2]
        /\ UnitAt(units, ab[1]).card_id = UnitAt(units, ab[2]).card_id
        /\ UnitAt(units, ab[1]).star = UnitAt(units, ab[2]).star
        /\ UnitAt(units, ab[1]).star < 3
        /\ HexAdjacent(ab[1], ab[2])}}

\* C7 (as stated): during deploy legal_actions() holds a MERGE for exactly
\* the unordered pairs of distinct cells of the active player with the same
\* type, the same star below 3 and hex-adjacent cells.
C7_MergeOfferedIffHexAdjacent ==
  ~done => OfferedMerges = HexMergePairs(pl[turn].units)

\* p1 and p2 are distinct hex-adjacent cells of `units` holding two units of
\* the same type and the same star below 3
LegalMerge(units, p1, p2) ==
  /\ p1 \in Keys(units)
  /\ p2 \in Keys(units)
  /\ p1 # p2
  /\ UnitAt(units, p1).card_id = UnitAt(units, p2).card_id
  /\ UnitAt(units, p1).star = UnitAt(units, p2).star
  /\ UnitAt(units, p1).star < 3
  /\ HexAdjacent(p1, p2)

\* what a merge of the units on p1 and p2 makes of the board `before`
MergedInto(before, after, p1, p2) ==
  /\ Cardinality({i \in DOMAIN after : after[i].pos = p1}) = 1
  /\ UnitAt(after, p1).card_id = UnitAt(before, p1).card_id
  /\ UnitAt(after, p1).star = UnitAt(before, p1).star + 1
  /\ p2 \notin Keys(after)
  /\ Len(after) = Len(before) - 1
  /\ Keys(after) = Keys(before) \ {p2}
  /\ \A c \in Keys(before) \ {p1, p2} : UnitAt(after, c) = UnitAt(before, c)

\* C8: a legal MERGE(A, B) leaves exactly one unit of the type with star
\* s + 1 on A, leaves B empty, lowers the active player's unit count by 1
\* and changes no other cell of either board, no elixir and no shop slot.
C8_MergeEffect ==
  [][\A p1 \in CellInputs(turn), p2 \in CellInputs(turn) :
       (LegalMerge(pl[turn].units, p1, p2) /\ Merge(p1, p2)) =>
         /\ MergedInto(pl[turn].units, pl'[turn].units, p1, p2)
         /\ pl'[1 - turn].units = pl[1 - turn].units
         /\ \A who \in 0 .. 1 :
              /\ pl'[who].elixir = pl[who].elixir
              /\ pl'[who].shop = pl[who].shop]_vars

\* round 3, after player 0 bought a third unit and merged two Tanks of a
\* board of three: a star-2 Tank of full hp on (0,2), (0,1) empty, the third
\* unit where it was
C8_Witness ==
  /\ round = 3
  /\ pl[0].elixir = START_ELIXIR - CARD_COST_DEFAULT
  /\ Len(pl[0].units) = 2
  /\ <<0, 2>> \in Keys(pl[0].units)
  /\ UnitAt(pl[0].units, <<0, 2>>) = board_unit(0, 2, <<0, 2>>)
  /\ <<0, 1>> \notin Keys(pl[0].units)

\* C9: a battle runs inside a step() exactly when both has-actions flags are
\* false after the action; the round grows by 1 in exactly those steps and
\* stays in all others; and a battle starts only when the player who did not
\* act had passed before.
C9_BattleIffBothPassed ==
  [][/\ battles' = battles + 1 <=> passed' = <<0, 0>>
     /\ battles' = battles + 1 => round' = round + 1
     /\ battles' # battles + 1 => (battles' = battles /\ round' = round)
     /\ battles' = battles + 1 => pl[1 - turn].actions_left = 0]_vars

\* a battle has just run: both flags were false and the round moved on
C9_Witness ==
  /\ battles = 2
  /\ round = 3
  /\ passed = <<0, 0>>

\* C10: an explicit END leaves the acting player's flag false, whatever
\* that player could still do, and in every state that is not done the
\* active player's flag is true.
C10_EndPassesTurn ==
  [][/\ End => /\ passed'[turn + 1] = 0
               /\ battles' = battles => pl'[turn].actions_left = 0
     /\ ~done' => pl'[turn'].actions_left # 0]_vars

\* the player who is not active has passed although an action other than
\* END is still open to that player
C10_Witness ==
  /\ ~done
  /\ pl[1 - turn].actions_left = 0
  /\ pl[turn].actions_left = 1
  /\ can_any_action(pl, round, 1 - turn)

\* the step is a step() call with an action other than END
NonEndStep ==
  \/ \E si \in SlotInputs, col \in ColInputs(turn), offer \in OfferInputs :
       BuyPlace(si, col, offer)
  \/ \E bi \in 0 .. 0, col \in ColInputs(turn) : PlaceFromBench(bi, col)
  \/ \E pos \in CellInputs(turn) : Sell(pos)
  \/ \E p1 \in CellInputs(turn), p2 \in CellInputs(turn) : Merge(p1, p2)
  \/ Unknown

\* C11: in a step() that runs no battle the active player changes only if
\* after the action the acting player's flag is false and the other
\* player's flag is true; a player who takes an action other than END and
\* can still take one stays the active player.
C11_TurnPassesOnlyWhenOut ==
  [][/\ (battles' = battles /\ turn' # turn) =>
          (pl'[turn].actions_left = 0 /\ pl'[1 - turn].actions_left # 0)
     /\ (NonEndStep /\ battles' = battles /\ can_any_action(pl', round, turn)) =>
          turn' = turn]_vars

\* player 0 has bought a unit in round 1, can still sell it, and is still
\* the active player although player 1 has not passed
C11_Witness ==
  /\ round = 1
  /\ turn = 0
  /\ Len(pl[0].units) = 1
  /\ pl[0].elixir = START_ELIXIR - CARD_COST_DEFAULT
  /\ passed = <<1, 1>>
  /\ can_any_action(pl, round, 0)

\* the deploy phase with the active player out of elixir, the bench empty and
\* the board filled to the round's unit cap
SpentAndFull ==
  /\ ~done
  /\ ~in_battle
  /\ pl[turn].elixir = 0
  /\ pl[turn].bench = <<>>
  /\ board_count(pl, turn) = cap(round)

\* C12 (as stated): in the deploy phase, with 0 elixir, an empty bench and a
\* board filled to the round's unit cap, legal_actions() returns END and
\* nothing else.
C12_OnlyEndWhenSpentAndFull == SpentAndFull => legal_actions = {<<"END">>}

\* C12 (amended): in that situation legal_actions() returns no BUY_PLACE and
\* no PLACE_FROM_BENCH; it returns END, a SELL for each unit of the active
\* player's board, and besides these only MERGE actions.
C12_NoBuyNoPlaceWhenSpentAndFull ==
  SpentAndFull =>
    /\ <<"END">> \in legal_actions
    /\ \A a \in legal_actions : a[1] \in {"END", "SELL", "MERGE"}
    /\ {a \in legal_actions : a[1] = "SELL"} =
         {<<"SELL", pos>> : pos \in Keys(pl[turn].units)}

\* round 6: player 0 has bought, sold and bought again, and holds six units
\* and no elixir
C12_Witness ==
  /\ SpentAndFull
  /\ round = DeployRound
  /\ turn = 0
  /\ Len(pl[0].units) = unit_cap_for_round(DeployRound)

\* C13: a step(END) that runs no battle leaves both boards, elixirs, shops,
\* benches and base healths and the round as they were; the passing player's
\* flag becomes false, the other player's flag stays, and the other player
\* becomes the active one.
C13_EndWithoutBattleKeepsGame ==
  [][(End /\ battles' = battles) =>
       /\ \A who \in 0 .. 1 :
            /\ pl'[who].units = pl[who].units
            /\ pl'[who].elixir = pl[who].elixir
            /\ pl'[who].shop = pl[who].shop
            /\ pl'[who].bench = pl[who].bench
            /\ pl'[who].base_hp = pl[who].base_hp
       /\ round' = round
       /\ done' = done
       /\ pl'[turn].actions_left = 0
       /\ pl'[1 - turn].actions_left = pl[1 - turn].actions_left
       /\ turn' = 1 - turn]_vars

\* round 1: player 0 bought a unit and passed, no battle ran, and player 1
\* is to act on an untouched game
C13_Witness ==
  /\ round = 1
  /\ battles = 0
  /\ turn = 1
  /\ passed = <<0, 1>>
  /\ Len(pl[0].units) = 1
  /\ pl[0].elixir = START_ELIXIR - CARD_COST_DEFAULT
  /\ pl[1].elixir = START_ELIXIR
  /\ pl[1].units = <<>>

\* C14: once done is true every step() leaves done true and leaves the
\* round, the active player, both boards, elixirs, shops, benches and base
\* healths as they were, and runs no battle.
C14_DoneIsTerminal ==
  [][done =>
       /\ done'
       /\ round' = round
       /\ turn' = turn
       /\ battles' = battles
       /\ \A who \in 0 .. 1 :
            /\ pl'[who].units = pl[who].units
            /\ pl'[who].elixir = pl[who].elixir
            /\ pl'[who].shop = pl[who].shop
            /\ pl'[who].bench = pl[who].bench
            /\ pl'[who].base_hp = pl[who].base_hp]_vars

\* a finished game: player 1's base is destroyed and player 0's is intact
C14_Witness ==
  /\ done
  /\ pl[1].base_hp = 0
  /\ pl[0].base_hp = BASE_HP
  /\ last_info.winner = 0

\* the number of units of type c and star s on the board `units`
CountOnBoard(units, c, s) ==
  Cardinality({i \in DOMAIN units : units[i].card_id = c /\ units[i].star = s})

\* the number of units of type c and star s that player `who` has in the
\* roster `roster`
CountInRoster(roster, who, c, s) ==
  Cardinality({i \in DOMAIN roster :
                 /\ roster[i].owner = who
                 /\ roster[i].card_id = c
                 /\ roster[i].star = s})

\* C15 (as stated): after a battle each player's board holds exactly the
\* units that player sent into it, dead ones included: for every type and
\* star, as many units as went in (none dropped or overwritten at the
\* write-back).
C15_BoardsKeepEveryUnit ==
  [][battles' = battles + 1 =>
       \A who \in 0 .. 1 : \A c \in TROOP_IDS : \A s \in 1 .. 3 :
         CountOnBoard(pl'[who].units, c, s) = CountInRoster(snap'.roster, who, c, s)]_vars

\* C16 (as stated): in every reachable state no cell holds a unit of player
\* 0 and a unit of player 1 at the same time, dead units included.
C16_NoCellSharedAcrossPlayers ==
  Keys(pl[0].units) \cap Keys(pl[1].units) = {}

\* the step ran a battle that stopped with units alive on both sides or on
\* neither
BattleWithoutWinner ==
  /\ battles' = battles + 1
  /\ ~(AliveOf(engine', 0) > 0 /\ AliveOf(engine', 1) = 0)
  /\ ~(AliveOf(engine', 1) > 0 /\ AliveOf(engine', 0) = 0)

\* C17: a battle that ends without a winner (both sides alive at the time
\* cap, or no unit alive on either side, two empty boards included) applies
\* no damage: both base healths are what they were before the battle.
C17_DrawDoesNoDamage ==
  [][BattleWithoutWinner =>
       /\ pl'[0].base_hp = pl[0].base_hp
       /\ pl'[1].base_hp = pl[1].base_hp
       /\ last_info'.winner = -1]_vars

\* the battle of round 3 ran to the time cap with units alive on both sides
\* and the bases are as they were before it
C17_Witness ==
  /\ battles = ClashRound
  /\ ticks = BattleIterations
  /\ AliveOf(engine, 0) > 0
  /\ AliveOf(engine, 1) > 0
  /\ last_info.winner = -1
  /\ pl[0].base_hp = BASE_HP
  /\ pl[1].base_hp = BASE_HP - 2

\* a projectile pass in which an arriving projectile lands only if its
\* target is alive at that moment
RECURSIVE ProjectileFoldLive(_, _, _)
ProjectileFoldLive(ps, units, kept) ==
  IF ps = <<>> THEN [units |-> units, projectiles |-> kept]
  ELSE LET p == Head(ps)
       IN  IF p.remaining - 1 <= 0
           THEN ProjectileFoldLive(Tail(ps),
                  IF p.target_idx \in DOMAIN units /\ is_alive(units[p.target_idx])
                  THEN [units EXCEPT ![p.target_idx].hp = @ - p.dmg] ELSE units,
                  kept)
           ELSE ProjectileFoldLive(Tail(ps), units,
                  Append(kept, [p EXCEPT !.remaining = @ - 1]))

\* the projectile pass of step() on e lands an arriving projectile only on
\* a target alive at that moment, and keeps exactly the others in flight
FizzlesOnDead(e) == ProjectilePass(e) = ProjectileFoldLive(e.projectiles, e.units, <<>>)

\* C18 (as stated): in both projectile passes of step() a projectile whose
\* travel completes lowers its target's hp only if the target is alive at
\* that time, never the hp of a unit at or below 0 (one killed earlier in
\* the tick included), and leaves the in-flight list either way.
C18_ProjectileFizzlesOnDeadTarget ==
  /\ FizzlesOnDead(engine)
  /\ FizzlesOnDead(BeforeLastPass(engine))

\* the roster the engine was built from is two melee units of the same type
\* and star (so of equal hp, dps and hit speed), one per side, on
\* hex-adjacent cells and within range of each other
EqualMeleePairInRange ==
  /\ Len(snap.roster) = 2
  /\ snap.roster[1].owner # snap.roster[2].owner
  /\ snap.roster[1].card_id = snap.roster[2].card_id
  /\ snap.roster[1].star = snap.roster[2].star
  /\ snap.roster[1].hp = snap.roster[2].hp
  /\ ~IsRanged(snap.roster[1].card_id)
  /\ HexAdjacent(snap.roster[1].cell, snap.roster[2].cell)
  /\ hex_dist(snap.roster[1].cell[1], snap.roster[1].cell[2],
              snap.roster[2].cell[1], snap.roster[2].cell[2])
       <= UnitRange(snap.roster[1].card_id)

\* C19 (as stated): from a roster of two melee units with equal hp, dps and
\* hit speed, one per side, adjacent and in range, the two units are after
\* every tick both alive or both dead: their hp reach 0 or less on the same
\* tick, so the battle ends with alive counts (0, 0) and no winner.
C19_EqualMeleeDieTogether ==
  EqualMeleePairInRange =>
    (is_alive(engine.units[1]) <=> is_alive(engine.units[2]))

\* C20: over a BattleEngine.step no unit's hp increases, so no dead unit
\* becomes alive again and neither side's alive count grows.
C20_HpNeverRises ==
  [][/\ \A i \in DOMAIN engine.units : engine'.units[i].hp <= engine.units[i].hp
     /\ \A i \in DOMAIN engine.units : ~is_alive(engine.units[i]) => ~is_alive(engine'.units[i])
     /\ alive_counts(engine'.units)[1] <= alive_counts(engine.units)[1]
     /\ alive_counts(engine'.units)[2] <= alive_counts(engine.units)[2]]_vars

\* a roster of two after MaxTicks steps: player 1's unit has died, player
\* 0's has lost hp and is alive
C20_Witness ==
  /\ ticks = MaxTicks
  /\ Len(engine.units) = 2
  /\ alive_counts(engine.units) = <<1, 0>>
  /\ engine.units[1].hp < snap.roster[1].hp
  /\ engine.units[2].hp <= 0

\* C21 (as stated): the battle loop of _run_battle calls engine.step at most
\* ABSOLUTE_BATTLE_TIME_CAP / SUB_TICK_DT times in one battle, and a pass of
\* the loop over an engine with one side's alive count at zero makes no
\* engine.step call.
C21_BattleLoopBounded ==
  /\ ticks <= ABSOLUTE_BATTLE_TIME_CAP \div SUB_TICK_DT
  /\ Wiped(engine) =>
       LoopBody([engine |-> engine, steps |-> ticks, stopped |-> FALSE])
         = [engine |-> engine, steps |-> ticks, stopped |-> TRUE]

\* C22 (as stated): immediately after reset() the observation reports
\* p0_elixir = 10 and p1_elixir = 10.
C22_ResetElixirIsTen ==
  Init => (observe.p0_elixir = 10 /\ observe.p1_elixir = 10)

\* C23: in the state reset() leaves, the environment is in the deploy phase
\* (neither in battle nor done) of round 1 with player 0 active, both boards
\* are empty (no unit in either dict, every cell of the observed board 0),
\* and the legal-action list is not empty.
C23_ResetState ==
  Init =>
    /\ observe.round = 1
    /\ observe.turn = 0
    /\ ~observe.in_battle
    /\ ~done
    /\ pl[0].units = <<>> /\ pl[1].units = <<>>
    /\ \A c \in Cells : observe.board[c] = 0
    /\ observe.mask # {}

\* the state after reset(): 15 BUY_PLACE actions (3 slots, 5 back-row
\* cells) and END are legal
C23_Witness ==
  /\ Init
  /\ Cardinality(observe.mask) = STORE_SLOTS * BOARD_COLS + 1
  /\ <<"END">> \in observe.mask

\* C24: every step that runs a battle leaves both players' elixir at
\* START_ELIXIR in the first state of the next round, whatever either of
\* them held before the battle.
C24_ElixirResetEachRound ==
  [][battles' = battles + 1 =>
       /\ round' = round + 1
       /\ pl'[0].elixir = START_ELIXIR
       /\ pl'[1].elixir = START_ELIXIR]_vars

\* round 2 has begun and player 0, who paid for a unit in round 1 and went
\* into the battle with less than START_ELIXIR, holds START_ELIXIR again
C24_Witness ==
  /\ round = 2
  /\ battles = 1
  /\ Len(pl[0].units) = 1
  /\ pl[0].elixir = START_ELIXIR
  /\ pl[1].elixir = START_ELIXIR

\* the step is a legal BUY_PLACE of shop slot si by the active player
BoughtSlot(si) ==
  \E col \in 0 .. BOARD_COLS - 1, offer \in OfferInputs :
    /\ <<"BUY_PLACE", si, col>> \in legal_actions
    /\ BuyPlace(si, col, offer)

\* C25: the shop is frozen.  Slot i of a player's shop changes only in a
\* step in which that player, being active, successfully buys slot i; such
\* a step leaves the other slots of that shop and the opponent's shop as
\* they were; no other step (SELL, MERGE, END, a battle, a round reset, a
\* rejected action) changes any slot; and every shop always holds exactly
\* STORE_SLOTS card ids.
C25_ShopFrozen ==
  [][/\ \A w \in 0 .. 1, si \in 0 .. STORE_SLOTS - 1 :
          pl'[w].shop[si + 1] # pl[w].shop[si + 1] =>
            /\ w = turn
            /\ BoughtSlot(si)
            /\ \A sj \in 0 .. STORE_SLOTS - 1 :
                 sj # si => pl'[w].shop[sj + 1] = pl[w].shop[sj + 1]
            /\ pl'[1 - w].shop = pl[1 - w].shop
     /\ \A w \in 0 .. 1 :
          /\ Len(pl'[w].shop) = STORE_SLOTS
          /\ \A i \in 1 .. STORE_SLOTS : pl'[w].shop[i] \in TROOP_IDS]_vars

\* a player has bought the Archer of slot 1: the Archer is on the board,
\* slot 1 holds the new offer and slots 0 and 2 hold what they held
C25_Witness ==
  \E w \in 0 .. 1 :
    /\ \E i \in DOMAIN pl[w].units : pl[w].units[i].card_id = 1
    /\ pl[w].shop = <<0, 0, 0>>
    /\ pl[1 - w].shop = <<0, 1, 0>>

\* C26: END is in the legal-action list of every reachable state: in the
\* deploy phase for either active player, whatever the elixir, the board
\* and the cap, and after the game is done.
C26_EndAlwaysLegal ==
  /\ <<"END">> \in legal_actions
  /\ <<"END">> \in observe.mask

\* the game is done after a battle and END is offered
C26_Witness ==
  /\ done
  /\ battles > 0
  /\ legal_actions = {<<"END">>}

\* in the deploy phase legal_actions() holds SELL(pos) for exactly the cells
\* of the active player's units, whatever their hp
SellOfferedIffOwned ==
  ~done =>
    {a[2] : a \in {x \in legal_actions : x[1] = "SELL"}} = Keys(pl[turn].units)

\* what a SELL of the active player's unit on pos does: the unit is gone
\* from that player's board and every other cell is as it was, the player
\* has SELL_REFUND more elixir, and the opponent's state and both shops are
\* as they were
SellEffect(pos) ==
  /\ pl'[turn].units = DictDel(pl[turn].units, pos)
  /\ pos \notin Keys(pl'[turn].units)
  /\ Len(pl'[turn].units) = Len(pl[turn].units) - 1
  /\ pl'[turn].elixir = pl[turn].elixir + SELL_REFUND
  /\ pl'[1 - turn] = pl[1 - turn]
  /\ pl'[turn].shop = pl[turn].shop

\* C27 (as stated): in the deploy phase SELL(pos) is legal for exactly the
\* cells of the active player's units, alive or dead, and every step(SELL(pos))
\* on such a cell removes that unit, adds SELL_REFUND to the active player's
\* elixir and leaves every other cell, the opponent's state and all shop
\* slots unchanged.
C27_SellEffect ==
  [][/\ SellOfferedIffOwned
     /\ \A pos \in Keys(pl[turn].units) : Sell(pos) => SellEffect(pos)]_vars

\* C27 (amended): in the deploy phase SELL(pos) is legal for exactly the
\* cells of the active player's units, alive or dead, and every step(SELL(pos))
\* on such a cell that runs no battle removes that unit, adds SELL_REFUND to
\* the active player's elixir and leaves every other cell, the opponent's
\* state and all shop slots unchanged.  (A sale that leaves the seller with
\* nothing to do after the opponent has passed starts the battle in the
\* same step.)
C27_SellEffectWithoutBattle ==
  [][/\ SellOfferedIffOwned
     /\ \A pos \in Keys(pl[turn].units) :
          (battles' = battles /\ Sell(pos)) => SellEffect(pos)]_vars

\* round 1, no battle yet: player 1 bought a unit and sold it again, and
\* holds START_ELIXIR less the price plus SELL_REFUND with an empty board
C27_Witness ==
  /\ round = 1
  /\ battles = 0
  /\ turn = 1
  /\ pl[1].units = <<>>
  /\ pl[1].elixir = START_ELIXIR - CARD_COST_DEFAULT + SELL_REFUND
  /\ pl[0].elixir = START_ELIXIR

\* C28: for every round n from 1 up to the round the game is in,
\* unit_cap_for_round(n + 1) >= unit_cap_for_round(n), the cap is at most 6,
\* the cap of round 1 is 2, and the cap of round n + 1 is the cap of round n
\* plus exactly 1 as long as that is below 6 and stays 6 from then on; the
\* round is never beyond MAX_ROUNDS + 1 and the observation reports the cap
\* of the current round.
C28_UnitCapMonotoneBounded ==
  /\ round \in 1 .. MAX_ROUNDS + 1
  /\ observe.unit_cap = unit_cap_for_round(round)
  /\ unit_cap_for_round(1) = 2
  /\ \A n \in 1 .. round :
       /\ unit_cap_for_round(n + 1) >= unit_cap_for_round(n)
       /\ unit_cap_for_round(n) <= 6
       /\ unit_cap_for_round(n) < 6 =>
            unit_cap_for_round(n + 1) = unit_cap_for_round(n) + 1
       /\ unit_cap_for_round(n) = 6 => unit_cap_for_round(n + 1) = 6

\* a game past the round in which the cap reaches 6: the cap has stopped
\* growing
C28_Witness ==
  /\ round = MAX_ROUNDS + 1
  /\ unit_cap_for_round(4) = 5
  /\ unit_cap_for_round(5) = 6
  /\ observe.unit_cap = 6

\* C29: in every state reachable from reset() by step() calls, with legal
\* and with rejected actions, both players' elixir is an integer and at
\* least 0.
C29_ElixirNeverNegative ==
  \A who \in 0 .. 1 : pl[who].elixir \in Nat

\* a player has spent everything: 0 elixir and a unit on the board, with
\* the shop still offering cards at a price above 0
C29_Witness ==
  \E who \in 0 .. 1 :
    /\ pl[who].elixir = 0
    /\ pl[who].units # <<>>
    /\ ~done
    /\ turn = who
    /\ \A si \in 0 .. STORE_SLOTS - 1 : ~can_buy_from_slot(pl, round, who, si)

\* the roster as the move planner of the step from `engine` sees it: after
\* the first projectile pass
PlannedUnits == ProjectilePass(engine).units

\* the units that claim cell c as their destination when the allocator
\* starts: their first intent is c and they are not blocked by a head-on swap
Claimants(units, c) ==
  LET first == InitialIntents(AllOptions(units))
  IN  {i \in DOMAIN units : first[i] = c} \ Blocked(first, Sources(units))

\* the claimant with the smallest key (owner, source row, source col, index)
KeyWinner(units, cands) ==
  SortByKey(cands, [k \in cands |-> cand_key(units, Sources(units), k)])[1]

\* unit i begins a move in this step
StartsMove(i) ==
  /\ engine.units[i].move_target = NoCell
  /\ engine'.units[i].move_target # NoCell

\* C30 (as stated): when two or more units claim the same destination cell
\* in one BattleEngine.step, exactly one of them begins moving into it, the
\* claimant with the smallest key (owner, source row, source col, index),
\* whatever its place in the roster; and a losing claimant that has no other
\* free candidate cell begins no move in that step.
C30_ContestedCellGoesToSmallestKey ==
  [][\A c \in Cells :
       LET u == PlannedUnits
           cl == Claimants(u, c)
       IN  Cardinality(cl) >= 2 =>
             /\ {i \in cl : StartsMove(i) /\ engine'.units[i].move_target = c}
                  = {KeyWinner(u, cl)}
             /\ \A k \in cl \ {KeyWinner(u, cl)} :
                  NextOption(AllOptions(u)[k], c, Occupied(u) \cup {c}) = NoCell
                    => ~StartsMove(k)]_vars

\* the cells reachable from cell a in at most n steps along hex_neighbors
RECURSIVE Within(_, _)
Within(a, n) ==
  IF n = 0 THEN {a}
  ELSE LET w == Within(a, n - 1)
       IN  w \cup UNION {hex_neighbors(x[1], x[2]) : x \in w}

\* the hex distance of the glossary: the least number of adjacent-cell steps
\* from a to b
StepDistance(a, b) ==
  CHOOSE n \in 0 .. BOARD_ROWS * BOARD_COLS :
    /\ b \in Within(a, n)
    /\ n > 0 => b \notin Within(a, n - 1)

\* the cells the engine measures hex_dist from in a step: the cell of every
\* unit of the roster and the hex neighbours of these cells
MeasuredCells ==
  LET at == {Rounded(engine.units[i]) : i \in DOMAIN engine.units}
  IN  at \cup UNION {hex_neighbors(x[1], x[2]) : x \in at}

\* C31 (as stated): from every cell the engine measures from, to every cell
\* of the board, hex_dist is the least number of steps between the two along
\* hex_neighbors; and hex_dist between such a cell and each of its hex
\* neighbours is 1, in even and in odd rows.
C31_HexDistIsStepDistance ==
  \A a \in MeasuredCells :
    /\ \A n \in hex_neighbors(a[1], a[2]) : hex_dist(a[1], a[2], n[1], n[2]) = 1
    /\ \A b \in Cells : hex_dist(a[1], a[2], b[1], b[2]) = StepDistance(a, b)

\* the distance-reducing candidates of unit i in the order the planner ranks
\* them: the options that are nearer to the unit's target than the unit is
ReducingOptions(units, i) ==
  LET me == Rounded(units[i])
      tp == Rounded(units[nearest_enemy(units, i)])
  IN  SelectSeq(OrderedOptions(units, i),
                LAMBDA n : hex_dist(n[1], n[2], tp[1], tp[2])
                             < hex_dist(me[1], me[2], tp[1], tp[2]))

\* C32 (as stated): among the free distance-reducing candidate cells of a
\* planning unit that leave it at the same distance from its target, a cell
\* with a larger row is ranked before a cell with a smaller row for a unit
\* of owner 0, and a cell with a smaller row before a cell with a larger row
\* for a unit of owner 1.
C32_BiasRanksForwardRowFirst ==
  LET u == PlannedUnits
  IN  \A i \in DOMAIN u :
        Plans(u, i) =>
          LET o == ReducingOptions(u, i)
              tp == Rounded(u[nearest_enemy(u, i)])
          IN  \A m \in DOMAIN o : \A n \in DOMAIN o :
                (/\ m < n
                 /\ hex_dist(o[m][1], o[m][2], tp[1], tp[2])
                      = hex_dist(o[n][1], o[n][2], tp[1], tp[2])
                 /\ o[m][1] # o[n][1])
                  => IF u[i].owner = 0 THEN o[m][1] > o[n][1] ELSE o[m][1] < o[n][1]

\* the float position of a unit, as the model carries it: the cell it left,
\* the cell it is sliding to and the number of advance_move calls so far
Position(u) == <<u.cell, u.move_target, u.prog>>

\* C33 (as stated): a unit whose hp is 0 or less, also one killed between
\* two cells, has the same position after every later BattleEngine.step, and
\* no other unit begins a move into the cell it occupies.
C33_DeadUnitsStay ==
  [][\A i \in DOMAIN engine.units :
       ~is_alive(engine.units[i]) =>
         /\ Position(engine'.units[i]) = Position(engine.units[i])
         /\ Rounded(engine'.units[i]) = Rounded(engine.units[i])
         /\ \A j \in DOMAIN engine.units :
              (j # i /\ StartsMove(j)) =>
                engine'.units[j].move_target # Rounded(engine.units[i])]_vars

\* the projectiles of ps that have more than one dt of travel left, each
\* with one dt less: what is in flight one dt later
OneDtLater(ps) ==
  LET Late(p) == p.remaining > 1
      Older(p) == [p EXCEPT !.remaining = @ - 1]
      flying == SelectSeq(ps, Late)
  IN  [k \in DOMAIN flying |-> Older(flying[k])]

\* C34 (as stated): over one BattleEngine.step(dt) the remaining travel time
\* of every projectile in flight falls by exactly dt: a projectile with more
\* than dt left before the step is in flight after it with dt less, so a
\* projectile of travel time T lands (or fizzles) no earlier than T seconds
\* after the attack that spawned it.
C34_ProjectileTravelsOneDtPerStep ==
  [][LET later == OneDtLater(engine.projectiles)
     IN  /\ Len(engine'.projectiles) >= Len(later)
         /\ SubSeq(engine'.projectiles, 1, Len(later)) = later]_vars

\* the key nearest_enemy compares for target j of unit idx:
\* (hex distance, target column, target row, roster index)
TargetKey(units, idx, j) ==
  LET me == Rounded(units[idx])
      t == Rounded(units[j])
  IN  <<hex_dist(me[1], me[2], t[1], t[2]), t[2], t[1], j>>

\* the loop of nearest_enemy from roster index j on, `best` being the best
\* index so far (0 for None): same-owner and dead units are skipped, and a
\* candidate replaces best when its key is smaller
RECURSIVE nearest_enemy_scan(_, _, _, _)
nearest_enemy_scan(units, idx, j, best) ==
  IF j > Len(units) THEN best
  ELSE IF units[j].owner = units[idx].owner \/ ~is_alive(units[j])
       THEN nearest_enemy_scan(units, idx, j + 1, best)
       ELSE IF best = 0 \/ LexLess(TargetKey(units, idx, j), TargetKey(units, idx, best))
            THEN nearest_enemy_scan(units, idx, j + 1, j)
            ELSE nearest_enemy_scan(units, idx, j + 1, best)

\* the alive units of the other owner than unit i's
AliveEnemies(units, i) ==
  {j \in DOMAIN units : units[j].owner # units[i].owner /\ is_alive(units[j])}

\* the key of the claim for target j of unit i: the hex distance of the
\* glossary (the least number of adjacent-cell steps), target column, target
\* row, roster index
StepKey(units, i, j) ==
  LET t == Rounded(units[j])
  IN  <<StepDistance(Rounded(units[i]), t), t[2], t[1], j>>

\* C35 (as stated): for every unit i of the roster, alive or dead,
\* nearest_enemy(i) is None exactly when no unit of the other owner is alive;
\* otherwise it is the index of an alive unit of the other owner whose key
\* (hex distance from unit i, target column, target row, index) is the
\* smallest among the alive units of the other owner.
C35_NearestEnemyMinimisesKey ==
  \A i \in DOMAIN engine.units :
    LET u == engine.units
        t == nearest_enemy_scan(u, i, 1, 0)
    IN  /\ t = nearest_enemy(u, i)
        /\ t = 0 <=> AliveEnemies(u, i) = {}
        /\ t # 0 =>
             /\ t \in AliveEnemies(u, i)
             /\ \A k \in AliveEnemies(u, i) \ {t} :
                  LexLess(StepKey(u, i, t), StepKey(u, i, k))

\* step(dt) up to its attack loop: the first projectile pass and the moves
AfterMoves(e) ==
  LET Perform(e1, plan) ==
        [units |-> PerformFold(1, e1.units, plan.intents, plan.blocked,
                               Occupied(e1.units)),
         projectiles |-> e1.projectiles]
      Moves(e1) == Perform(e1, PlanMoves(e1.units))
  IN  Moves(ProjectilePass(e))

\* one pass of the attack loop: what unit i does to engine e on its turn
AttackOne(e, i) ==
  IF ~Attacks(e.units, i) THEN e
  ELSE LET ui == e.units[i]
           t == nearest_enemy(e.units, i)
           me == Rounded(ui)
           tp == Rounded(e.units[t])
           cooled == [e.units EXCEPT ![i].cooldown = HitSpeedTicks]
       IN  IF IsRanged(ui.card_id)
           THEN [units |-> cooled,
                 projectiles |-> Append(e.projectiles,
                   [owner |-> ui.owner, dmg |-> UnitDamage(ui.card_id, ui.star),
                    target_idx |-> t,
                    remaining |-> TravelDecrements(hex_dist(me[1], me[2], tp[1], tp[2]))])]
           ELSE [units |-> [cooled EXCEPT ![t].hp = @ - UnitDamage(ui.card_id, ui.star)],
                 projectiles |-> e.projectiles]

\* the attack loop of step() after the turns of units 1 .. n
RECURSIVE AttackUpTo(_, _)
AttackUpTo(n, e) == IF n = 0 THEN e ELSE AttackOne(AttackUpTo(n - 1, e), n)

\* C36 (as stated): in a BattleEngine.step a unit deals damage or spawns a
\* projectile on its turn of the attack loop only if it is then alive,
\* centered, has no move in flight, has cooldown 0 and its nearest enemy is
\* within its range, the hex distance between their cells being at most the
\* range; the step then leaves its cooldown at hit_speed and it began no
\* move in that step; and as no step lowers a cooldown by more than dt, the
\* unit's next attack comes at least hit_speed later.
C36_AttackOnlyWhenReady ==
  [][LET m == AfterMoves(engine)
     IN  /\ AttackUpTo(Len(engine.units), m) = BeforeLastPass(engine)
         /\ \A i \in DOMAIN engine.units :
              LET before == AttackUpTo(i - 1, m)
                  ui == before.units[i]
                  t == nearest_enemy(before.units, i)
              IN  /\ AttackOne(before, i) # before =>
                       /\ is_alive(ui)
                       /\ is_center(ui)
                       /\ ui.move_target = NoCell
                       /\ ui.cooldown = 0
                       /\ t # 0
                       /\ StepDistance(Rounded(ui), Rounded(before.units[t]))
                            <= UnitRange(ui.card_id)
                       /\ engine.units[i].cooldown <= 1
                       /\ engine'.units[i].cooldown = HitSpeedTicks
                       /\ HitSpeedTicks * SUB_TICK_DT >= 1000
                       /\ ~StartsMove(i)
                  /\ engine'.units[i].cooldown >= engine.units[i].cooldown - 1]_vars

\* C37: after a step() with an action other than END that runs no battle,
\* the acting player's has-actions flag is set exactly when legal_actions(),
\* computed for that player in the resulting state, holds an action other
\* than END; and a player left with the flag cleared is passed: the turn
\* goes to the opponent without an END from that player.
C37_FlagIffNonEndActionLegal ==
  [][(NonEndStep /\ battles' = battles) =>
       /\ pl'[turn].actions_left # 0
            <=> legal_actions_of(pl', round', turn, done', in_battle') # {<<"END">>}
       /\ pl'[turn].actions_left = 0 => turn' = 1 - turn]_vars

\* round 1, no battle yet: player 0 bought and sold twice, is left with no
\* unit and less elixir than a card costs, and the turn has gone to player 1
C37_Witness ==
  /\ round = 1
  /\ battles = 0
  /\ turn = 1
  /\ pl[0].units = <<>>
  /\ pl[0].elixir = START_ELIXIR - 2 * CARD_COST_DEFAULT + 2 * SELL_REFUND
  /\ pl[0].actions_left = 0
  /\ pl[1].actions_left = 1
  /\ legal_actions_of(pl, round, 0, done, in_battle) = {<<"END">>}

\* ------------------------------------------------------------------------
\* Games in which every step() is given an action of legal_actions(), and
\* step() is called for ever
\* ------------------------------------------------------------------------
\* step() with an action taken from the current legal_actions() list
PlayBuyPlace ==
  \E si \in SlotInputs, col \in ColInputs(turn), offer \in OfferInputs :
    /\ Acting
    /\ <<"BUY_PLACE", si, col>> \in legal_actions
    /\ BuyPlace(si, col, offer)

PlaySell ==
  \E pos \in CellInputs(turn) :
    /\ Selling
    /\ <<"SELL", pos>> \in legal_actions
    /\ Sell(pos)

PlayMerge ==
  \E p1 \in CellInputs(turn), p2 \in CellInputs(turn) :
    /\ Acting
    /\ <<"MERGE", p1, p2>> \in legal_actions
    /\ Merge(p1, p2)

\* END is in every legal_actions() list
PlayEnd == <<"END">> \in legal_actions /\ End

LegalNext ==
  \/ PlayBuyPlace
  \/ PlaySell
  \/ PlayMerge
  \/ PlayEnd

\* the caller goes on calling step() as long as the game is not done: weak
\* fairness of LegalNext, written out.  WF_vars(LegalNext) is
\* []<>(~ENABLED <<LegalNext>>_vars) \/ []<><<LegalNext>>_vars, and a
\* LegalNext step that changes the state is possible exactly when the game
\* is not done, END being legal then and clearing the active player's flag.
KeepsCalling == []<>done \/ []<><<LegalNext>>_vars

LegalSpec == Init /\ [][LegalNext]_vars /\ KeepsCalling

\* C38: when step() is called for ever with actions of the current
\* legal_actions() list, with or without END among them, every round comes
\* to its battle and the game reaches done.
C38_LegalPlayReachesDone ==
  /\ <>done
  /\ \A r \in 1 .. MAX_ROUNDS : (round = r /\ ~done) ~> (round > r)

\* the game is done after MAX_ROUNDS battles, with a unit bought on the way
\* still on a board
C38_Witness ==
  /\ done
  /\ battles = MAX_ROUNDS
  /\ round = MAX_ROUNDS + 1
  /\ pl[0].units # <<>>

\* C39: in every reachable state each player's number of board units, dead
\* ones included, is at most unit_cap_for_round(round).
C39_BoardWithinUnitCap ==
  \A who \in 0 .. 1 : board_count(pl, who) <= unit_cap_for_round(round)

\* round DeployRound: player 0 has bought a card and holds as many units as
\* the cap allows, a dead one among them; no further card can be bought
C39_Witness ==
  /\ round = DeployRound
  /\ ~done
  /\ board_count(pl, 0) = unit_cap_for_round(round)
  /\ \E i \in DOMAIN pl[0].units : pl[0].units[i].hp <= 0
  /\ pl[0].elixir = START_ELIXIR - CARD_COST_DEFAULT
  /\ has_empty_back_cell(pl, 0)
  /\ \A si \in 0 .. STORE_SLOTS - 1 : ~can_buy_from_slot_any_price(pl, round, 0, si)

\* C40: player 0 is the first to act in every round.  reset() leaves player
\* 0 active, and every step that runs a battle is taken with player 1
\* active and, the round reset flipping the turn, leaves player 0 active in
\* the first state of the next round.
C40_PlayerZeroOpensEveryRound ==
  [][/\ Init => turn = 0
     /\ round' # round =>
          /\ battles' = battles + 1
          /\ turn = 1
          /\ turn' = 0
          /\ ~done' => (pl'[0].actions_left = 1 /\ pl'[1].actions_left = 1)]_vars

\* the first state of round 2: player 1, who bought a unit after player 0
\* had passed, ended round 1, and player 0 is active
C40_Witness ==
  /\ round = 2
  /\ battles = 1
  /\ ~done
  /\ turn = 0
  /\ pl[1].units # <<>>
  /\ pl[0].actions_left = 1
  /\ pl[1].actions_left = 1
  /\ pl[1].elixir = START_ELIXIR

=============================================================================
